---- MODULE Spec2Model ----
(***************************************************************************)
(* Verification model of the turn-level orchestration core of Skill-Know:  *)
(*   - StatefulToolMiddleware (phase-gated tool injection),                *)
(*     backend/app/services/agent/middleware/dynamic_tools.py              *)
(*   - StreamingResponseHandler (streaming response aggregator),           *)
(*     backend/app/services/agent/streams/response_handler.py              *)
(*   - AgentService.chat_stream (one model invocation written to a sink),  *)
(*     backend/app/services/agent/core/service.py                          *)
(*   - ChatService.chat_stream_with_tools (one chat turn of a request),    *)
(*     backend/app/services/chat.py                                        *)
(*   - TaskManager (upload progress and its fan-out to subscribers),       *)
(*     backend/app/services/upload_task.py                                 *)
(***************************************************************************)
EXTENDS Integers, Sequences, FiniteSets, TLC

\* ------------------------------------------------------------------------
\* Bounds
\* ------------------------------------------------------------------------

\* messages one model invocation streams to the response handler
MaxChunks == 3

\* model steps (AI messages) per conversation thread
MaxSteps == 3

\* tool calls carried by one AI message
MaxCalls == 2

\* skills a search step can return
MaxSkills == 2

\* chat requests served one after the other
MaxTurns == 2

\* files of the upload task
MaxFiles == 2

\* subscribers of the upload task
MaxSubscribers == 2

\* capacity of a subscriber queue (asyncio.Queue(maxsize=100), scaled)
MaxQueue == 2

\* update_progress calls on the upload task
MaxUpdates == 3

\* chat_stream calls that name the same conversation
MaxRuns == 2

\* tool calls the agent makes with one context
MaxInvocations == 2

\* ------------------------------------------------------------------------
\* Phase state machine: data
\* ------------------------------------------------------------------------

VARIABLES
    phase,          \* state["phase"] as persisted by the checkpointer
    phase0,         \* history: the persisted phase the thread was loaded with
    ai_steps,       \* history: model steps (AI messages) of the thread so far
    pipeline,       \* history: how far the steps so far have gone, one
                    \* step after the other, through calling
                    \* extract_keywords, search_skills, get_skill_content
    messages,       \* state["messages"], from the last AIMessage on
    pc,             \* position of the agent loop
    phase_tools,    \* StatefulToolMiddleware._phase_tools (cache)
    skill_tools,    \* StatefulToolMiddleware._skill_tools
    request_tools,  \* ModelRequest.tools of the incoming request (base set)
    model_tools,    \* tools of the request handed to the model handler
    injected,       \* phase tools computed by the last awrap_model_call
    update,         \* return value of the last aafter_model
    found           \* skill ids returned by the last search_skills execution

phaseVars == <<phase, phase0, ai_steps, pipeline, messages, pc, phase_tools, skill_tools,
               request_tools, model_tools, injected, update, found>>

VARIABLES
    model_kind,       \* StreamingResponseHandler.model: which representation
    full_content,     \* StreamingResponseHandler.full_content
    full_reasoning,   \* StreamingResponseHandler.full_reasoning
    seen_tool_ids,    \* StreamingResponseHandler.seen_tool_ids
    content_events,   \* StreamingResponseHandler.content_events
    reasoning_events, \* StreamingResponseHandler.reasoning_events
    reasoning_chars,  \* StreamingResponseHandler.reasoning_chars
    emitted,          \* events passed to emitter.aemit, in order
    last_msg,         \* the message handle_message was last called with
    tool_results,     \* history: ids of the tool messages handled, in order
    handled,          \* number of handle_message calls so far
    result            \* return value of finalize()

aggVars == <<model_kind, full_content, full_reasoning, seen_tool_ids,
             content_events, reasoning_events, reasoning_chars, emitted,
             last_msg, tool_results, handled, result>>

VARIABLES
    svc,              \* position of AgentService.chat_stream
    path,             \* history: the path chat_stream took
    has_emitter,      \* context.emitter is present and has aemit
    abandoned         \* the reader of the sink has stopped consuming

svcVars == <<svc, path, has_emitter, abandoned>>

VARIABLES
    conversations,        \* ids of the conversations in the database
    saved_messages,       \* messages written by ConversationService.add_message
    request,              \* the chat request being served
    turn_pc,              \* position of chat_stream_with_tools
    turns,                \* history: requests received so far
    seq,                  \* chat_stream_with_tools: seq
    yielded,              \* events the generator has yielded for this turn
    conversation_id,      \* chat_stream_with_tools: conversation_id
    user_message_id,      \* chat_stream_with_tools: user_message_id
    assistant_message_id  \* chat_stream_with_tools: assistant_message_id

turnVars == <<conversations, saved_messages, request, turn_pc, turns, seq,
              yielded, conversation_id, user_message_id,
              assistant_message_id>>

VARIABLES
    total,        \* TaskState.total
    files,        \* TaskState.files: step and status of each file
    completed,    \* TaskState.completed
    failed,       \* TaskState.failed
    task_status,  \* TaskState.status
    subscribers,  \* TaskManager._subscribers[task_id]: the queues
    updates,      \* history: update_progress calls so far
    last_event    \* history: the event of the last update_progress call

taskVars == <<total, files, completed, failed, task_status, subscribers,
              updates, last_event>>

VARIABLES
    user_message,   \* IntentExtractor.extract: user_message
    llm,            \* IntentExtractor._llm: what the model does when invoked
    intent_result,  \* the IntentResult extract returned, given to build
    hash_seed,      \* the str hash seed of the interpreter process, as the
                    \* iteration order it gives a set of up to three str
    built,          \* history: the queries built from intent_result
    query,          \* the SearchQuery build returned, given to search
    skills,         \* the rows of the skill table, in the order of the select
    scored,         \* history: what _match_skill returned for each active
                    \* skill of the last search, in the order of the select
    search_result   \* the SearchResult search returned

searchVars == <<user_message, llm, intent_result, hash_seed, built, query,
                skills, scored, search_result>>

VARIABLES
    checkpoint,     \* the phase the checkpointer holds for the thread_id
    runs,           \* the agent.astream runs on the thread: position, the
                    \* phase of the state the run works on, its model steps
    thread_steps    \* history: model steps of all the runs of the thread

threadVars == <<checkpoint, runs, thread_steps>>

VARIABLES
    streams         \* the get_event_stream generators of the task: where
                    \* each is suspended, the place of its queue in the
                    \* subscriber list, and what it has yielded

streamVars == <<streams>>

VARIABLES
    invocation,     \* the tool call that is running: the tool, its
                    \* tool_call_id, the emitter of runtime.context and the
                    \* value its return statement has computed
    tool_pc,        \* position of the tool's coroutine
    sink,           \* events the emitter has delivered, in order
    returned,       \* what the last finished tool call gave its caller
    invocations     \* history: tool calls made so far

toolVars == <<invocation, tool_pc, sink, returned, invocations>>

vars == <<phaseVars, aggVars, svcVars, turnVars, taskVars, searchVars,
          threadVars, streamVars, toolVars>>

\* what the actions of one component leave alone
outsidePhase == <<aggVars, svcVars, turnVars, taskVars, searchVars, threadVars,
                  streamVars, toolVars>>
outsideAgg == <<phaseVars, svcVars, turnVars, taskVars, searchVars, threadVars,
                  streamVars, toolVars>>
outsideService == <<phaseVars, turnVars, taskVars, searchVars, threadVars,
                  streamVars, toolVars>>
outsideTurn == <<phaseVars, aggVars, svcVars, taskVars, searchVars, threadVars,
                  streamVars, toolVars>>
outsideTask == <<phaseVars, aggVars, svcVars, turnVars, searchVars, threadVars,
                  streamVars, toolVars>>
outsideSearch == <<phaseVars, aggVars, svcVars, turnVars, taskVars,
                  threadVars, streamVars, toolVars>>
outsideThread == <<phaseVars, aggVars, svcVars, turnVars, taskVars,
                  searchVars, streamVars, toolVars>>
outsideStream == <<phaseVars, aggVars, svcVars, turnVars, searchVars,
                  threadVars, toolVars>>
outsideTool == <<phaseVars, aggVars, svcVars, turnVars, taskVars, searchVars,
                  threadVars, streamVars>>

\* class SkillPhase(str, Enum)
SkillPhase == {"init", "intent_analysis", "skill_retrieval",
               "tool_preparation", "execution"}

\* the key "phase" is absent from the state
NoPhase == "<absent>"

\* a value no SkillPhase member has
ForeignPhase == "retired_phase"

\* what a checkpoint can hold under the key "phase"
PersistedPhases == SkillPhase \cup {NoPhase, ForeignPhase}

\* aafter_model returned None
None == [none |-> TRUE]

\* names the model can put in a tool call
ToolNames == {"extract_keywords", "search_skills", "get_skill_content",
              "web_lookup"}

\* the skill store: id, name, content ("" = no content)
AllSkillIds == <<"sk-1", "sk-2", "sk-3">>

SkillName == [i \in {"sk-1", "sk-2", "sk-3"} |->
                 CASE i = "sk-1" -> "Decorators"
                   [] i = "sk-2" -> "Generators"
                   [] i = "sk-3" -> "Closures"]

SkillContent == [i \in {"sk-1", "sk-2", "sk-3"} |->
                 CASE i = "sk-1" -> "use @wraps"
                   [] i = "sk-2" -> ""
                   [] i = "sk-3" -> "capture by cell"]

\* skill.id.replace('-', '_') prefixed with "skill_"
SkillToolName == [i \in {"sk-1", "sk-2", "sk-3"} |->
                 CASE i = "sk-1" -> "skill_sk_1"
                   [] i = "sk-2" -> "skill_sk_2"
                   [] i = "sk-3" -> "skill_sk_3"]

\* a tool object: its name and, for a skill tool, what it returns
BaseTool(name) == [name |-> name, returns |-> "<result>"]

extract_keywords == BaseTool("extract_keywords")

search_skills == BaseTool("search_skills")

get_skill_content == BaseTool("get_skill_content")

NoContentText(id) == <<"no content", SkillName[id]>>

create_skill_content_tool_from_skill(id) ==
    [name |-> SkillToolName[id],
     returns |-> IF SkillContent[id] # "" THEN <<"content", SkillContent[id]>>
                 ELSE NoContentText(id)]

create_skill_content_tools(ids) ==
    [k \in 1..Len(ids) |-> create_skill_content_tool_from_skill(ids[k])]

\* sequences over S of length 0..n
SeqsUpTo(S, n) == UNION {[1..k -> S] : k \in 0..n}

\* tool_calls of one AI message (names only; the code reads tc["name"])
ToolCallLists == SeqsUpTo(ToolNames, MaxCalls)

\* base tool sets a request can carry
BaseToolLists == {<<>>,
                  <<BaseTool("web_lookup")>>,
                  <<extract_keywords, search_skills, get_skill_content>>}

HumanMessage == [type |-> "human", tool_calls |-> <<>>, name |-> "-"]

AIMessage(calls) == [type |-> "ai", tool_calls |-> calls, name |-> "-"]

ToolMessage(n) == [type |-> "tool", tool_calls |-> <<>>, name |-> n]

\* ------------------------------------------------------------------------
\* Phase state machine: the middleware's functions
\* ------------------------------------------------------------------------

\* variant: an unknown value is passed through instead of defaulting to INIT
get_current_phase_nodefault(p) ==
    IF p = NoPhase THEN "init" ELSE p

\* StatefulToolMiddleware._get_current_phase
get_current_phase(p) ==
    LET phase_str == IF p = NoPhase THEN "init" ELSE p
    IN  IF phase_str \in SkillPhase THEN phase_str ELSE "init"

\* variant: the retrieval phase keeps the previous phase's tool
build_phase_tools_keep(ph, skilltools) ==
    IF ph = "init" \/ ph = "intent_analysis" THEN <<extract_keywords>>
    ELSE IF ph = "skill_retrieval" THEN <<extract_keywords, search_skills>>
    ELSE IF ph = "tool_preparation" THEN <<get_skill_content>>
    ELSE IF ph = "execution" THEN skilltools
    ELSE <<>>

\* the list _get_phase_tools builds on a cache miss
build_phase_tools(ph, skilltools) ==
    IF ph = "init" \/ ph = "intent_analysis" THEN <<extract_keywords>>
    ELSE IF ph = "skill_retrieval" THEN <<search_skills>>
    ELSE IF ph = "tool_preparation" THEN <<get_skill_content>>
    ELSE IF ph = "execution" THEN skilltools
    ELSE <<>>

\* StatefulToolMiddleware._get_phase_tools: the returned list
get_phase_tools(ph, cache, skilltools) ==
    IF ph \in DOMAIN cache THEN cache[ph]
    ELSE build_phase_tools(ph, skilltools)

\* StatefulToolMiddleware._get_phase_tools: the cache afterwards
cache_after(ph, cache, skilltools) ==
    IF ph \in DOMAIN cache THEN cache
    ELSE [q \in DOMAIN cache \cup {ph} |->
             IF q = ph THEN build_phase_tools(ph, skilltools) ELSE cache[q]]

\* variant: the phase tools replace the request's tools
wrapped_tools_replace(reqtools, phtools) ==
    IF phtools # <<>> THEN phtools ELSE reqtools

\* the tool list awrap_model_call hands to the handler
wrapped_tools(reqtools, phtools) ==
    IF phtools # <<>> THEN reqtools \o phtools ELSE reqtools

\* index of the last AIMessage of msgs, 0 if there is none
LastAI(msgs) ==
    LET idx == {i \in 1..Len(msgs) : msgs[i].type = "ai"}
    IN  IF idx = {} THEN 0 ELSE CHOOSE i \in idx : \A j \in idx : j <= i

\* variant: get_skill_content does not leave TOOL_PREPARATION
RECURSIVE scan_tool_calls_stuck(_, _, _)
scan_tool_calls_stuck(calls, k, current_phase) ==
    IF k > Len(calls) THEN None
    ELSE IF calls[k] = "extract_keywords" /\ current_phase = "init"
         THEN [phase |-> "skill_retrieval"]
    ELSE IF calls[k] = "search_skills" /\ current_phase = "skill_retrieval"
         THEN [phase |-> "tool_preparation"]
    ELSE IF calls[k] = "get_skill_content" /\ current_phase = "tool_preparation"
         THEN [phase |-> "tool_preparation"]
    ELSE scan_tool_calls_stuck(calls, k + 1, current_phase)

\* variant: extract_keywords restarts the pipeline from any phase
RECURSIVE scan_tool_calls_restart(_, _, _)
scan_tool_calls_restart(calls, k, current_phase) ==
    IF k > Len(calls) THEN None
    ELSE IF calls[k] = "extract_keywords"
         THEN [phase |-> "skill_retrieval"]
    ELSE IF calls[k] = "search_skills" /\ current_phase = "skill_retrieval"
         THEN [phase |-> "tool_preparation"]
    ELSE IF calls[k] = "get_skill_content" /\ current_phase = "tool_preparation"
         THEN [phase |-> "execution"]
    ELSE scan_tool_calls_restart(calls, k + 1, current_phase)

\* variant: get_skill_content jumps to EXECUTION from any phase
RECURSIVE scan_tool_calls_jump(_, _, _)
scan_tool_calls_jump(calls, k, current_phase) ==
    IF k > Len(calls) THEN None
    ELSE IF calls[k] = "extract_keywords" /\ current_phase = "init"
         THEN [phase |-> "skill_retrieval"]
    ELSE IF calls[k] = "search_skills" /\ current_phase = "skill_retrieval"
         THEN [phase |-> "tool_preparation"]
    ELSE IF calls[k] = "get_skill_content"
         THEN [phase |-> "execution"]
    ELSE scan_tool_calls_jump(calls, k + 1, current_phase)

\* variant: search_skills is accepted in INIT as well
RECURSIVE scan_tool_calls_lenient(_, _, _)
scan_tool_calls_lenient(calls, k, current_phase) ==
    IF k > Len(calls) THEN None
    ELSE IF calls[k] = "extract_keywords" /\ current_phase = "init"
         THEN [phase |-> "skill_retrieval"]
    ELSE IF calls[k] = "search_skills"
            /\ current_phase \in {"init", "skill_retrieval"}
         THEN [phase |-> "tool_preparation"]
    ELSE IF calls[k] = "get_skill_content" /\ current_phase = "tool_preparation"
         THEN [phase |-> "execution"]
    ELSE scan_tool_calls_lenient(calls, k + 1, current_phase)

\* variant: every tool call of the message is applied in turn, each to the
\* phase the call before it led to
RECURSIVE scan_tool_calls_cascade(_, _, _)
scan_tool_calls_cascade(calls, k, current_phase) ==
    IF k > Len(calls) THEN None
    ELSE LET next_phase ==
                 IF calls[k] = "extract_keywords" /\ current_phase = "init"
                 THEN "skill_retrieval"
                 ELSE IF calls[k] = "search_skills"
                         /\ current_phase = "skill_retrieval"
                 THEN "tool_preparation"
                 ELSE IF calls[k] = "get_skill_content"
                         /\ current_phase = "tool_preparation"
                 THEN "execution"
                 ELSE current_phase
             rest == scan_tool_calls_cascade(calls, k + 1, next_phase)
         IN  IF rest # None THEN rest
             ELSE IF next_phase # current_phase THEN [phase |-> next_phase]
             ELSE None

\* the loop over last_ai_msg.tool_calls of aafter_model, from call k on
RECURSIVE scan_tool_calls(_, _, _)
scan_tool_calls(calls, k, current_phase) ==
    IF k > Len(calls) THEN None
    ELSE IF calls[k] = "extract_keywords" /\ current_phase = "init"
         THEN [phase |-> "skill_retrieval"]
    ELSE IF calls[k] = "search_skills" /\ current_phase = "skill_retrieval"
         THEN [phase |-> "tool_preparation"]
    ELSE IF calls[k] = "get_skill_content" /\ current_phase = "tool_preparation"
         THEN [phase |-> "execution"]
    ELSE scan_tool_calls(calls, k + 1, current_phase)

\* StatefulToolMiddleware.aafter_model: the returned state update
after_model_update(msgs, p) ==
    IF msgs = <<>> THEN None
    ELSE IF LastAI(msgs) = 0 THEN None
    ELSE IF msgs[LastAI(msgs)].tool_calls = <<>> THEN None
    ELSE scan_tool_calls(msgs[LastAI(msgs)].tool_calls, 1, get_current_phase(p))

\* ------------------------------------------------------------------------
\* Response aggregator: data
\* ------------------------------------------------------------------------

\* strings are sequences of characters
Concat(parts) ==
    LET RECURSIVE cat(_)
        cat(ps) == IF ps = <<>> THEN <<>> ELSE Head(ps) \o cat(Tail(ps))
    IN  cat(parts)

\* msg.content: a str is a one-part list, a list has one part per element
Contents == {<<>>,
             << <<"A">> >>,
             << <<"B">> >>,
             << <<"A", "B">> >>,
             << <<"A">>, <<"B">> >>}

\* the reasoning carried by a message (reasoning blocks, or the side channel)
Reasonings == {<<>>, <<" ">>, <<"t">>}

\* a message id that is not a str (None)
NoId == "<none>"

ToolIds == {"call_1", "call_2", NoId}

NoMsg == [cls |-> "-", content |-> <<>>, reasoning |-> <<>>, id |-> NoId]

\* what agent.astream can yield
StreamItems ==
    [cls : {"AIMessageChunk", "AIMessage"}, content : Contents,
     reasoning : Reasonings, id : {NoId}]
    \cup [cls : {"ToolMessage"}, content : {<<>>}, reasoning : {<<>>},
          id : ToolIds]
    \cup [cls : {"HumanMessage"}, content : {<<>>}, reasoning : {<<>>},
          id : {NoId}]

\* "v1": content blocks; "v0": model with extract_reasoning;
\* "v0_plain": a v0 model without extract_reasoning
ModelKinds == {"v1", "v0", "v0_plain"}

ASSISTANT_DELTA == "assistant.delta"

ASSISTANT_REASONING_DELTA == "assistant.reasoning.delta"

ASSISTANT_FINAL == "assistant.final"

\* emitter.aemit(type, payload)
Event(type, payload) == [type |-> type, payload |-> payload]

\* the handler's fields as one record
Handler ==
    [full_content |-> full_content, full_reasoning |-> full_reasoning,
     seen_tool_ids |-> seen_tool_ids, content_events |-> content_events,
     reasoning_events |-> reasoning_events, reasoning_chars |-> reasoning_chars,
     emitted |-> emitted]

\* ------------------------------------------------------------------------
\* Response aggregator: the handler's methods
\* ------------------------------------------------------------------------

\* StreamingResponseHandler._is_v1_model
is_v1_model(kind) == kind = "v1"

\* parse_content_blocks: the merged text and the merged reasoning
parse_content_blocks(msg) ==
    [text |-> Concat(msg.content), reasoning |-> msg.reasoning]

\* variant: the event carries the accumulated text
add_content_cumulative(h, delta) ==
    IF delta # <<>>
    THEN [h EXCEPT !.full_content = @ \o delta,
                   !.content_events = @ + 1,
                   !.emitted = Append(@, Event(ASSISTANT_DELTA,
                                  [delta |-> h.full_content \o delta]))]
    ELSE h

\* the text branch shared by the four AI handlers
add_content(h, delta) ==
    IF delta # <<>>
    THEN [h EXCEPT !.full_content = @ \o delta,
                   !.content_events = @ + 1,
                   !.emitted = Append(@, Event(ASSISTANT_DELTA,
                                                [delta |-> delta]))]
    ELSE h

\* variant: the reasoning event is put ahead of the events emitted so far
add_reasoning_first(h, delta) ==
    IF delta # <<>>
    THEN [h EXCEPT !.full_reasoning = @ \o delta,
                   !.reasoning_chars = @ + Len(delta),
                   !.reasoning_events = @ + 1,
                   !.emitted = <<Event(ASSISTANT_REASONING_DELTA,
                                       [delta |-> delta])>> \o @]
    ELSE h

\* the reasoning branch shared by the four AI handlers
add_reasoning(h, delta) ==
    IF delta # <<>>
    THEN [h EXCEPT !.full_reasoning = @ \o delta,
                   !.reasoning_chars = @ + Len(delta),
                   !.reasoning_events = @ + 1,
                   !.emitted = Append(@, Event(ASSISTANT_REASONING_DELTA,
                                                [delta |-> delta]))]
    ELSE h

\* StreamingResponseHandler._handle_ai_chunk_v1
handle_ai_chunk_v1(h, msg) ==
    LET parsed == parse_content_blocks(msg)
    IN  add_reasoning(add_content(h, parsed.text), parsed.reasoning)

\* StreamingResponseHandler._handle_ai_chunk_v0
handle_ai_chunk_v0(h, msg, kind) ==
    LET delta == Concat(msg.content)
        h1 == add_content(h, delta)
    IN  IF kind = "v0" THEN add_reasoning(h1, msg.reasoning) ELSE h1

\* variant: the full message is added even after streamed text deltas
handle_ai_message_v1_always(h, msg) ==
    LET parsed == parse_content_blocks(msg)
        h1 == add_content(h, parsed.text)
    IN  IF h1.reasoning_events = 0 THEN add_reasoning(h1, parsed.reasoning)
        ELSE h1

\* StreamingResponseHandler._handle_ai_message_v1
handle_ai_message_v1(h, msg) ==
    LET parsed == parse_content_blocks(msg)
        h1 == IF h.content_events = 0 THEN add_content(h, parsed.text) ELSE h
    IN  IF h1.reasoning_events = 0 THEN add_reasoning(h1, parsed.reasoning)
        ELSE h1

\* StreamingResponseHandler._handle_ai_message_v0
handle_ai_message_v0(h, msg, kind) ==
    LET h1 == IF h.content_events = 0 THEN add_content(h, Concat(msg.content))
              ELSE h
    IN  IF h1.reasoning_events = 0 /\ kind = "v0"
        THEN add_reasoning(h1, msg.reasoning)
        ELSE h1

\* variant: a tool message that is not a repeat is passed on as an event
handle_tool_message_emitting(h, msg) ==
    IF msg.id # NoId /\ msg.id \in h.seen_tool_ids THEN h
    ELSE [h EXCEPT !.seen_tool_ids =
                       IF msg.id # NoId THEN @ \cup {msg.id} ELSE @,
                   !.emitted = Append(@, Event("tool.end", [id |-> msg.id]))]

\* variant: the id of a tool message is not remembered
handle_tool_message_forgetful(h, msg) == h

\* StreamingResponseHandler._handle_tool_message
handle_tool_message(h, msg) ==
    IF msg.id # NoId /\ msg.id \in h.seen_tool_ids THEN h
    ELSE IF msg.id # NoId
         THEN [h EXCEPT !.seen_tool_ids = @ \cup {msg.id}]
         ELSE h

\* StreamingResponseHandler.handle_message: the dispatch on the message class
handle_message_result(h, msg, kind) ==
    IF msg.cls = "AIMessageChunk"
    THEN IF is_v1_model(kind) THEN handle_ai_chunk_v1(h, msg)
         ELSE handle_ai_chunk_v0(h, msg, kind)
    ELSE IF msg.cls = "AIMessage"
    THEN IF is_v1_model(kind) THEN handle_ai_message_v1(h, msg)
         ELSE handle_ai_message_v0(h, msg, kind)
    ELSE IF msg.cls = "ToolMessage" THEN handle_tool_message(h, msg)
    ELSE h

\* str.strip() is non-empty
StripNonEmpty(str) == \E k \in 1..Len(str) : str[k] # " "

\* finalize with the fallback taken whatever the content counter is
finalize_fields_always(h) ==
    IF StripNonEmpty(h.full_reasoning)
    THEN [h EXCEPT !.full_content = h.full_reasoning, !.full_reasoning = <<>>]
    ELSE h

\* StreamingResponseHandler.finalize: the fields after the fallback
finalize_fields(h) ==
    IF h.content_events = 0 /\ StripNonEmpty(h.full_reasoning)
    THEN [h EXCEPT !.full_content = h.full_reasoning, !.full_reasoning = <<>>]
    ELSE h

\* None as the value of result["reasoning"]
NoReasoning == <<"<None>">>

\* finalize returning the reasoning string as it is, empty or not
finalize_result_raw(h) ==
    [content |-> h.full_content, reasoning |-> h.full_reasoning]

\* StreamingResponseHandler.finalize: the returned dict
finalize_result(h) ==
    [content |-> h.full_content,
     reasoning |-> IF h.full_reasoning # <<>> THEN h.full_reasoning
                   ELSE NoReasoning]

\* finalize() has not run
NoResult == [content |-> <<"<unset>">>, reasoning |-> <<"<unset>">>]

\* ------------------------------------------------------------------------
\* Response aggregator: one model invocation
\* ------------------------------------------------------------------------

\* None as an id: the request names no conversation, the turn has no id yet
Unset == <<"none", 0>>

\* no chat request is being served
NoRequest == [message |-> "<none>", conversation_id |-> Unset]

\* a chat service that receives no request
TurnIdle ==
    /\ conversations = {}
    /\ saved_messages = <<>>
    /\ request = NoRequest
    /\ turn_pc = "idle"
    /\ turns = 0
    /\ seq = 0
    /\ yielded = <<>>
    /\ conversation_id = Unset
    /\ user_message_id = Unset
    /\ assistant_message_id = Unset

\* no update_progress call has been made
NoEvent == [file_id |-> 0, step |-> "-", status |-> "-"]

\* a task manager without a task
TaskIdle ==
    /\ total = 0
    /\ files = <<>>
    /\ completed = 0
    /\ failed = 0
    /\ task_status = "-"
    /\ subscribers = <<>>
    /\ updates = 0
    /\ last_event = NoEvent

\* no extraction, query or search has been asked for
SearchIdle ==
    /\ user_message = <<>>
    /\ llm = None
    /\ intent_result = None
    /\ hash_seed = <<1, 2, 3>>
    /\ built = <<>>
    /\ query = None
    /\ skills = <<>>
    /\ scored = <<>>
    /\ search_result = None

\* no tool call running
NoInvocation == [name |-> "-", tool_call_id |-> 0, emitter |-> "-", value |-> None]

\* an agent that has called no tool
ToolIdle ==
    /\ invocation = NoInvocation
    /\ tool_pc = "idle"
    /\ sink = <<>>
    /\ returned = None
    /\ invocations = 0

\* a thread no chat_stream call has named, a task no stream was asked for
ThreadIdle ==
    /\ checkpoint = NoPhase
    /\ runs = <<>>
    /\ thread_steps = 0
    /\ streams = <<>>

\* a handler that is constructed and receives nothing
AggIdle ==
    /\ model_kind = "v1"
    /\ full_content = <<>>
    /\ full_reasoning = <<>>
    /\ seen_tool_ids = {}
    /\ content_events = 0
    /\ reasoning_events = 0
    /\ reasoning_chars = 0
    /\ emitted = <<>>
    /\ last_msg = NoMsg
    /\ tool_results = <<>>
    /\ handled = 0
    /\ result = NoResult
    /\ svc = "idle"
    /\ path = "-"
    /\ has_emitter = TRUE
    /\ abandoned = FALSE

SetHandler(h) ==
    /\ full_content' = h.full_content
    /\ full_reasoning' = h.full_reasoning
    /\ seen_tool_ids' = h.seen_tool_ids
    /\ content_events' = h.content_events
    /\ reasoning_events' = h.reasoning_events
    /\ reasoning_chars' = h.reasoning_chars
    /\ emitted' = h.emitted

\* StreamingResponseHandler.handle_message on the next item of the stream
handle_message ==
    /\ svc = "streaming"
    /\ result = NoResult
    /\ handled < MaxChunks
    /\ \E msg \in StreamItems :
          /\ SetHandler(handle_message_result(Handler, msg, model_kind))
          /\ last_msg' = msg
          /\ tool_results' = IF msg.cls = "ToolMessage"
                              THEN Append(tool_results, msg.id)
                              ELSE tool_results
    /\ handled' = handled + 1
    /\ UNCHANGED <<model_kind, result>>
    /\ UNCHANGED outsideAgg

\* StreamingResponseHandler.finalize, once the stream is exhausted
finalize ==
    /\ svc = "streaming"
    /\ result = NoResult
    /\ LET h == finalize_fields(Handler)
       IN  /\ result' = finalize_result(h)
           /\ SetHandler([h EXCEPT !.emitted =
                  Append(@, Event(ASSISTANT_FINAL, finalize_result(h)))])
    /\ UNCHANGED <<model_kind, last_msg, tool_results, handled>>
    /\ UNCHANGED outsideAgg

\* a thread that runs no model step
PhaseIdle ==
    /\ phase = NoPhase
    /\ phase0 = NoPhase
    /\ ai_steps = 0
    /\ pipeline = 0
    /\ messages = <<>>
    /\ pc = "idle"
    /\ phase_tools = <<>>
    /\ skill_tools = <<>>
    /\ request_tools = <<>>
    /\ model_tools = <<>>
    /\ injected = <<>>
    /\ update = None
    /\ found = <<>>

\* the handler is driven by a chat_stream that has built its agent
Streaming ==
    /\ svc = "streaming"
    /\ path = "stream"
    /\ has_emitter = TRUE
    /\ abandoned = FALSE

InitAgg ==
    /\ PhaseIdle
    /\ Streaming
    /\ TurnIdle
    /\ TaskIdle
    /\ SearchIdle
    /\ ThreadIdle
    /\ ToolIdle
    /\ model_kind \in ModelKinds
    /\ full_content = <<>>
    /\ full_reasoning = <<>>
    /\ seen_tool_ids = {}
    /\ content_events = 0
    /\ reasoning_events = 0
    /\ reasoning_chars = 0
    /\ emitted = <<>>
    /\ last_msg = NoMsg
    /\ tool_results = <<>>
    /\ handled = 0
    /\ result = NoResult

NextAgg ==
    \/ handle_message
    \/ finalize

AggSpec == InitAgg /\ [][NextAgg]_vars

\* ------------------------------------------------------------------------
\* AgentService.chat_stream: one model invocation written to the sink
\* ------------------------------------------------------------------------

\* StreamEventType.ERROR
ERROR == "error"

\* the end marker of the sink
END == "__end__"

\* str(e) of the exceptions get_agent and agent.astream raise
Exceptions == {"unavailable"}

\* chat_stream, except branch of get_agent: error event, then end marker
agent_init_failed(em, e) ==
    em \o <<Event(ERROR, [message |-> "agent init failed", detail |-> e,
                          code |-> "agent_init_failed"]),
            Event(END, None)>>

\* an except branch that emits nothing
on_stream_error_silent(em, e) == em

\* chat_stream, except branch of the stream loop: one error event
on_stream_error(em, e) == Append(em, Event(ERROR, [message |-> e]))

\* a finally branch that leaves the sink open
close_skipped(em) == em

\* chat_stream, finally branch: the end marker
close(em) == Append(em, Event(END, None))

\* chat_stream called with a context that has no usable emitter
no_emitter ==
    /\ svc = "called"
    /\ ~has_emitter
    /\ svc' = "raised"
    /\ path' = "no_emitter"
    /\ UNCHANGED <<aggVars, has_emitter, abandoned>>
    /\ UNCHANGED outsideService

\* get_agent returns the agent; the handler is constructed
get_agent ==
    /\ svc = "called"
    /\ has_emitter
    /\ svc' = "streaming"
    /\ path' = "stream"
    /\ UNCHANGED <<aggVars, has_emitter, abandoned>>
    /\ UNCHANGED outsideService

\* get_agent raises: error event and end marker, then return
get_agent_raises ==
    /\ svc = "called"
    /\ has_emitter
    /\ \E e \in Exceptions : emitted' = agent_init_failed(emitted, e)
    /\ svc' = "returned"
    /\ path' = "init_failed"
    /\ UNCHANGED <<model_kind, full_content, full_reasoning, seen_tool_ids,
                   content_events, reasoning_events, reasoning_chars,
                   last_msg, tool_results, handled, result>>
    /\ UNCHANGED <<has_emitter, abandoned>>
    /\ UNCHANGED outsideService

\* agent.astream or handle_message raises an Exception inside the loop
stream_raises ==
    /\ svc = "streaming"
    /\ result = NoResult
    /\ \E e \in Exceptions : emitted' = on_stream_error(emitted, e)
    /\ svc' = "failed"
    /\ path' = "stream_failed"
    /\ UNCHANGED <<model_kind, full_content, full_reasoning, seen_tool_ids,
                   content_events, reasoning_events, reasoning_chars,
                   last_msg, tool_results, handled, result>>
    /\ UNCHANGED <<has_emitter, abandoned>>
    /\ UNCHANGED outsideService

\* the task running chat_stream is cancelled at an await of the loop:
\* CancelledError is not an Exception, so the except branch is skipped
cancelled ==
    /\ svc = "streaming"
    /\ result = NoResult
    /\ svc' = "cancelled"
    /\ path' = "cancelled"
    /\ UNCHANGED <<aggVars, has_emitter, abandoned>>
    /\ UNCHANGED outsideService

\* the finally branch: end marker, then return or re-raise
close_sink ==
    /\ \/ svc = "streaming" /\ result # NoResult
       \/ svc = "failed"
       \/ svc = "cancelled"
    /\ emitted' = close(emitted)
    /\ svc' = IF svc = "cancelled" THEN "raised" ELSE "returned"
    /\ UNCHANGED <<model_kind, full_content, full_reasoning, seen_tool_ids,
                   content_events, reasoning_events, reasoning_chars,
                   last_msg, tool_results, handled, result>>
    /\ UNCHANGED <<path, has_emitter, abandoned>>
    /\ UNCHANGED outsideService

\* the reader of the sink stops consuming; chat_stream is not told
abandon ==
    /\ svc = "streaming"
    /\ ~abandoned
    /\ abandoned' = TRUE
    /\ UNCHANGED <<aggVars, svc, path, has_emitter>>
    /\ UNCHANGED outsideService

InitService ==
    /\ PhaseIdle
    /\ TurnIdle
    /\ TaskIdle
    /\ SearchIdle
    /\ ThreadIdle
    /\ ToolIdle
    /\ model_kind \in ModelKinds
    /\ full_content = <<>>
    /\ full_reasoning = <<>>
    /\ seen_tool_ids = {}
    /\ content_events = 0
    /\ reasoning_events = 0
    /\ reasoning_chars = 0
    /\ emitted = <<>>
    /\ last_msg = NoMsg
    /\ tool_results = <<>>
    /\ handled = 0
    /\ result = NoResult
    /\ svc = "called"
    /\ path = "-"
    /\ has_emitter \in BOOLEAN
    /\ abandoned = FALSE

NextService ==
    \/ no_emitter
    \/ get_agent
    \/ get_agent_raises
    \/ handle_message
    \/ stream_raises
    \/ cancelled
    \/ finalize
    \/ close_sink
    \/ abandon

ServiceSpec == InitService /\ [][NextService]_vars

\* ------------------------------------------------------------------------
\* ChatService.chat_stream_with_tools: one chat turn of a request
\* ------------------------------------------------------------------------

\* StreamEventType.META_START
META_START == "meta.start"

\* conversation ids a request can name
KnownIds == {<<"conv", 1>>, <<"conv", 2>>}

\* message texts of the requests
Messages == {"hello", "how to deploy"}

\* the chat requests: ChatRequest(message, conversation_id)
Requests ==
    [message : Messages, conversation_id : KnownIds \cup {Unset}]

\* Conversation.id of the conversation created in the n-th turn
new_conversation_id(n) == <<"new", n>>

\* str(uuid.uuid4()), first and second call of the n-th turn
uuid4(n, k) == <<"uuid", 2 * n + k>>

\* chat_stream_with_tools: the conversation the turn runs in
resolve_conversation(req, convs, n) ==
    IF req.conversation_id # Unset /\ req.conversation_id \in convs
    THEN req.conversation_id
    ELSE new_conversation_id(n)

\* ConversationService.add_message: the stored message
Message(conv, role, content, id) ==
    [conversation_id |-> conv, role |-> role, content |-> content,
     message_id |-> id]

\* a counter that is handed out without being advanced
next_seq_stale(s) == s

\* chat_stream_with_tools.next_seq: the value of seq after the call
next_seq(s) == s + 1

\* make_event: the event handed to the caller
make_event(s, type, conv, id, payload) ==
    [seq |-> s, type |-> type, conversation_id |-> conv,
     message_id |-> id, payload |-> payload]

\* a start payload with the two message ids exchanged
meta_start_payload_swapped(uid, aid) ==
    [user_message_id |-> aid, assistant_message_id |-> uid,
     mode |-> "agent"]

\* the payload of the meta.start event
meta_start_payload(uid, aid) ==
    [user_message_id |-> uid, assistant_message_id |-> aid,
     mode |-> "agent"]

\* the fields of the dataclass ChatContext
ChatContextFields ==
    {"emitter", "conversation_id", "user_id", "session", "metadata"}

\* the keyword arguments chat_stream_with_tools passes to ChatContext
ChatContextCall ==
    {"emitter", "conversation_id", "user_id", "assistant_message_id", "db"}

\* ChatContext.__init__ (generated by @dataclass): None when every keyword
\* is a field, else the TypeError it raises
ChatContext(kwargs) ==
    IF kwargs \subseteq ChatContextFields THEN None
    ELSE [raised |-> "TypeError: unexpected keyword argument"]

\* the router calls chat_stream_with_tools for a request
chat_request ==
    /\ turn_pc \in {"idle", "done"}
    /\ turns < MaxTurns
    /\ request' \in Requests
    /\ turns' = turns + 1
    /\ turn_pc' = "called"
    /\ seq' = 0
    /\ yielded' = <<>>
    /\ conversation_id' = Unset
    /\ user_message_id' = Unset
    /\ assistant_message_id' = Unset
    /\ UNCHANGED <<conversations, saved_messages>>
    /\ UNCHANGED outsideTurn

\* up to the first yield: conversation, message ids, the user message is
\* saved, meta.start is yielded
start_turn ==
    /\ turn_pc = "called"
    /\ LET conv == resolve_conversation(request, conversations, turns)
           uid == uuid4(turns, 0)
           aid == uuid4(turns, 1)
       IN  /\ conversations' = conversations \cup {conv}
           /\ conversation_id' = conv
           /\ user_message_id' = uid
           /\ assistant_message_id' = aid
           /\ saved_messages' =
                 Append(saved_messages,
                        Message(conv, "user", request.message, uid))
           /\ seq' = next_seq(seq)
           /\ yielded' =
                 Append(yielded,
                        make_event(next_seq(seq), META_START, conv, aid,
                                   meta_start_payload(uid, aid)))
    /\ turn_pc' = "started"
    /\ UNCHANGED <<request, turns>>
    /\ UNCHANGED outsideTurn

\* from the first yield on: the model and the prompt are fetched, the
\* queue and the emitter are made, ChatContext(...) raises, and the except
\* branch yields the error event.  The agent, the handler, the producer
\* task and the consumer loop come after the raise.
run_agent ==
    /\ turn_pc = "started"
    /\ ChatContext(ChatContextCall) # None
    /\ seq' = next_seq(seq)
    /\ yielded' =
          Append(yielded,
                 make_event(next_seq(seq), ERROR, conversation_id,
                            assistant_message_id,
                            [message |-> ChatContext(ChatContextCall).raised]))
    /\ turn_pc' = "failed"
    /\ UNCHANGED <<conversations, saved_messages, request, turns,
                   conversation_id, user_message_id, assistant_message_id>>
    /\ UNCHANGED outsideTurn

\* the generator is resumed after the error event and ends
end_turn ==
    /\ turn_pc = "failed"
    /\ turn_pc' = "done"
    /\ UNCHANGED <<conversations, saved_messages, request, turns, seq,
                   yielded, conversation_id, user_message_id,
                   assistant_message_id>>
    /\ UNCHANGED outsideTurn

InitTurn ==
    /\ PhaseIdle
    /\ AggIdle
    /\ TaskIdle
    /\ SearchIdle
    /\ ThreadIdle
    /\ ToolIdle
    /\ conversations \in SUBSET KnownIds
    /\ saved_messages = <<>>
    /\ request = NoRequest
    /\ turn_pc = "idle"
    /\ turns = 0
    /\ seq = 0
    /\ yielded = <<>>
    /\ conversation_id = Unset
    /\ user_message_id = Unset
    /\ assistant_message_id = Unset

NextTurn ==
    \/ chat_request
    \/ start_turn
    \/ run_agent
    \/ end_turn

TurnSpec == InitTurn /\ [][NextTurn]_vars

\* ------------------------------------------------------------------------
\* TaskManager: progress of one upload task and its fan-out
\* ------------------------------------------------------------------------

\* the (step, status) pairs the upload pipeline reports
Reports ==
    {[step |-> "parsing", status |-> "running"],
     [step |-> "completed", status |-> "completed"],
     [step |-> "failed", status |-> "failed"]}

\* FileProgress(file_id, filename) as create_task makes it
FileProgress == [step |-> "queued", status |-> "pending"]

\* ProgressEvent(task_id, file_id, ..., step, status, ...)
ProgressEvent(file_id, rep) ==
    [file_id |-> file_id, step |-> rep.step, status |-> rep.status]

\* asyncio.Queue.put_nowait under try/except QueueFull: the queue after it
put_nowait(queue, event) ==
    IF Len(queue) < MaxQueue THEN Append(queue, event) ELSE queue

\* a fan-out that a full queue ends: the queues behind it get nothing
notify_subscribers_until_full(subs, event) ==
    [i \in 1..Len(subs) |->
        IF \E j \in 1..i : Len(subs[j]) >= MaxQueue THEN subs[i]
        ELSE Append(subs[i], event)]

\* TaskManager._notify_subscribers: the queues after the fan-out
notify_subscribers(subs, event) ==
    [i \in 1..Len(subs) |-> put_nowait(subs[i], event)]

\* update_progress: the step of the file was COMPLETED or FAILED already
was_completed(file_progress) == file_progress.step \in {"completed", "failed"}

\* TaskManager.subscribe: a new empty queue behind the others
subscribe ==
    /\ task_status # "-"
    /\ Len(subscribers) < MaxSubscribers
    /\ subscribers' = Append(subscribers, <<>>)
    /\ UNCHANGED <<total, files, completed, failed, task_status, updates,
                   last_event>>
    /\ UNCHANGED outsideTask

\* TaskManager.update_progress for a file id and a report
update_progress ==
    /\ task_status # "-"
    /\ updates < MaxUpdates
    /\ updates' = updates + 1
    /\ \E file_id \in 1..MaxFiles, rep \in Reports :
          IF file_id \notin DOMAIN files
          THEN /\ last_event' = NoEvent
               /\ UNCHANGED <<files, completed, failed, task_status,
                              subscribers>>
          ELSE LET done == ~was_completed(files[file_id])
                   c == IF done /\ rep.step = "completed"
                        THEN completed + 1 ELSE completed
                   f == IF done /\ rep.step = "failed"
                        THEN failed + 1 ELSE failed
               IN  /\ files' = [files EXCEPT ![file_id] =
                                   [step |-> rep.step, status |-> rep.status]]
                   /\ completed' = c
                   /\ failed' = f
                   /\ task_status' =
                         IF c + f >= total
                         THEN (IF f = 0 THEN "completed" ELSE "partial")
                         ELSE task_status
                   /\ last_event' = ProgressEvent(file_id, rep)
                   /\ subscribers' =
                         notify_subscribers(subscribers,
                                            ProgressEvent(file_id, rep))
    /\ UNCHANGED total
    /\ UNCHANGED outsideTask

\* get_event_stream of subscriber i: queue.get() takes the oldest event
queue_get ==
    /\ \E i \in 1..Len(subscribers) :
          /\ subscribers[i] # <<>>
          /\ subscribers' = [subscribers EXCEPT ![i] = Tail(@)]
    /\ UNCHANGED <<total, files, completed, failed, task_status, updates,
                   last_event>>
    /\ UNCHANGED outsideTask

\* the state create_task leaves: every file queued, no subscriber
InitTask ==
    /\ SearchIdle
    /\ ThreadIdle
    /\ ToolIdle
    /\ PhaseIdle
    /\ AggIdle
    /\ TurnIdle
    /\ total \in 0..MaxFiles
    /\ files = [i \in 1..total |-> FileProgress]
    /\ completed = 0
    /\ failed = 0
    /\ task_status = "running"
    /\ subscribers = <<>>
    /\ updates = 0
    /\ last_event = NoEvent

NextTask ==
    \/ subscribe
    \/ update_progress
    \/ queue_get

TaskSpec == InitTask /\ [][NextTask]_vars

\* ------------------------------------------------------------------------
\* TaskManager.get_event_stream: the generators of one upload task
\* ------------------------------------------------------------------------
\* A generator runs from one suspension to the next without interruption.
\* It is suspended at the yield of a file's current state ("state"), at
\* await queue.get() ("get") or at the yield of an event ("event"); it has
\* ended by running off its end ("returned") or by being closed or
\* cancelled at a suspension ("closed").

\* TaskManager.unsubscribe: the list without the queue (place 0: the queue
\* is not in the list, ValueError is passed over)
unsubscribe(subs, pos) ==
    IF pos = 0 THEN subs
    ELSE [i \in 1..(Len(subs) - 1) |-> IF i < pos THEN subs[i] ELSE subs[i + 1]]

\* the generators after generator k has gone through its finally branch
after_finally(k, how) ==
    [i \in 1..Len(streams) |->
        IF i = k THEN [streams[k] EXCEPT !.pc = how, !.pos = 0]
        ELSE IF streams[k].pos # 0 /\ streams[i].pos > streams[k].pos
        THEN [streams[i] EXCEPT !.pos = @ - 1]
        ELSE streams[i]]

\* the generator goes on from a point of get_event_stream to its next
\* suspension or its end: the rest of the for loop over task.files, the
\* break after an event, the test of the while loop
run_on(k, st) ==
    IF st.pc = "state" /\ st.sent < Len(files)
    THEN /\ streams' = [streams EXCEPT ![k] =
                [st EXCEPT !.sent = @ + 1,
                           !.received = @ \cup
                               {ProgressEvent(st.sent + 1, files[st.sent + 1])}]]
         /\ subscribers' = subscribers
    ELSE IF st.pc = "event" /\ completed + failed >= total
    THEN /\ streams' = after_finally(k, "returned")
         /\ subscribers' = unsubscribe(subscribers, st.pos)
    ELSE IF task_status = "running"
    THEN /\ streams' = [streams EXCEPT ![k] = [st EXCEPT !.pc = "get"]]
         /\ subscribers' = subscribers
    ELSE /\ streams' = after_finally(k, "returned")
         /\ subscribers' = unsubscribe(subscribers, st.pos)

\* the first __anext__ of get_event_stream(task_id): subscribe, then up to
\* the first suspension.  One generator is followed: generators share
\* nothing but the subscriber list, from which each removes its own queue.
stream_open ==
    /\ task_status # "-"
    /\ streams = <<>>
    /\ LET k == Len(streams) + 1
           pos == Len(subscribers) + 1
           yields == files # <<>>
           st == [pc |-> IF yields THEN "state"
                         ELSE IF task_status = "running" THEN "get"
                         ELSE "returned",
                  pos |-> IF ~yields /\ task_status # "running" THEN 0
                          ELSE pos,
                  sent |-> IF yields THEN 1 ELSE 0,
                  opened_at |-> updates,
                  beat |-> 0,
                  received |-> IF yields THEN {ProgressEvent(1, files[1])}
                               ELSE {}]
       IN  /\ streams' = Append(streams, st)
           /\ subscribers' = IF st.pos = 0 THEN subscribers
                             ELSE Append(subscribers, <<>>)
    /\ UNCHANGED <<total, files, completed, failed, task_status, updates,
                   last_event>>
    /\ UNCHANGED outsideStream

\* the consumer asks for the next item after a yield
stream_resume ==
    /\ \E k \in 1..Len(streams) :
          /\ streams[k].pc \in {"state", "event"}
          /\ run_on(k, streams[k])
    /\ UNCHANGED <<total, files, completed, failed, task_status, updates,
                   last_event>>
    /\ UNCHANGED outsideStream

\* queue.get() returns the oldest event, which is yielded
stream_get ==
    /\ \E k \in 1..Len(streams) :
          /\ streams[k].pc = "get"
          /\ subscribers[streams[k].pos] # <<>>
          /\ streams' = [streams EXCEPT ![k] =
                [@ EXCEPT !.pc = "event",
                          !.received = @ \cup
                              {Head(subscribers[streams[k].pos])}]]
          /\ subscribers' = [subscribers EXCEPT ![streams[k].pos] = Tail(@)]
    /\ UNCHANGED <<total, files, completed, failed, task_status, updates,
                   last_event>>
    /\ UNCHANGED outsideStream

\* wait_for gives up after 30 s on an empty queue: continue
stream_timeout ==
    /\ \E k \in 1..Len(streams) :
          /\ streams[k].pc = "get"
          /\ subscribers[streams[k].pos] = <<>>
          /\ run_on(k, [streams[k] EXCEPT !.beat = 1 - @])
    /\ UNCHANGED <<total, files, completed, failed, task_status, updates,
                   last_event>>
    /\ UNCHANGED outsideStream

\* the consumer goes away: the generator is closed at a yield, or the task
\* awaiting it is cancelled at queue.get(); the finally branch runs
stream_cancel ==
    /\ \E k \in 1..Len(streams) :
          /\ streams[k].pc \in {"state", "get", "event"}
          /\ streams' = after_finally(k, "closed")
          /\ subscribers' = unsubscribe(subscribers, streams[k].pos)
    /\ UNCHANGED <<total, files, completed, failed, task_status, updates,
                   last_event>>
    /\ UNCHANGED outsideStream

NextStream ==
    \/ update_progress
    \/ stream_open
    \/ stream_resume
    \/ stream_get
    \/ stream_timeout
    \/ stream_cancel

StreamSpec == InitTask /\ [][NextStream]_vars

\* the event loop runs every timer and every consumer that is ready
FairStreamSpec ==
    /\ StreamSpec
    /\ WF_vars(stream_resume)
    /\ WF_vars(stream_get)
    /\ WF_vars(stream_timeout)

\* ------------------------------------------------------------------------
\* Phase state machine: the agent loop
\* ------------------------------------------------------------------------

\* aafter_model looks no further back than the last AIMessage
\* (reversed(messages) stops there): the older messages are not kept
SinceLastAI(msgs) ==
    IF LastAI(msgs) = 0 THEN msgs ELSE SubSeq(msgs, LastAI(msgs), Len(msgs))

\* the tool the k-th step of the retrieval pipeline calls
PipelineTool == <<"extract_keywords", "search_skills", "get_skill_content">>

Calls(calls, n) == \E k \in 1..Len(calls) : calls[k] = n

InitPhase ==
    /\ AggIdle
    /\ TurnIdle
    /\ TaskIdle
    /\ SearchIdle
    /\ ThreadIdle
    /\ ToolIdle
    /\ phase \in PersistedPhases
    /\ phase0 = phase
    /\ ai_steps = 0
    /\ pipeline = 0
    /\ messages = <<HumanMessage>>
    /\ pc = "model"
    /\ phase_tools = <<>>
    /\ skill_tools = <<>>
    /\ request_tools \in BaseToolLists
    /\ model_tools = <<>>
    /\ injected = <<>>
    /\ update = None
    /\ found = <<>>

\* awrap_model_call, the model's answer included
awrap_model_call ==
    /\ pc = "model"
    /\ ai_steps < MaxSteps
    /\ LET current_phase == get_current_phase(phase)
           phtools == get_phase_tools(current_phase, phase_tools, skill_tools)
       IN  /\ phase_tools' = cache_after(current_phase, phase_tools, skill_tools)
           /\ injected' = phtools
           /\ model_tools' = wrapped_tools(request_tools, phtools)
    /\ \E calls \in ToolCallLists :
          messages' = SinceLastAI(Append(messages, AIMessage(calls)))
    /\ ai_steps' = ai_steps + 1
    /\ pc' = "after_model"
    /\ UNCHANGED <<phase, phase0, pipeline, skill_tools, request_tools, update,
                   found>>
    /\ UNCHANGED outsidePhase

\* aafter_model, and the merge of its update into the state
aafter_model ==
    /\ pc = "after_model"
    /\ update' = after_model_update(messages, phase)
    /\ phase' = IF update' = None THEN phase ELSE update'.phase
    /\ pc' = IF messages[Len(messages)].tool_calls # <<>> THEN "tools" ELSE "done"
    /\ pipeline' = IF /\ pipeline < Len(PipelineTool)
                      /\ Calls(messages[Len(messages)].tool_calls,
                               PipelineTool[pipeline + 1])
                   THEN pipeline + 1 ELSE pipeline
    /\ UNCHANGED <<phase0, ai_steps, messages, phase_tools, skill_tools, request_tools,
                   model_tools, injected, found>>
    /\ UNCHANGED outsidePhase

RECURSIVE tool_messages(_, _)
tool_messages(calls, k) ==
    IF k > Len(calls) THEN <<>>
    ELSE <<ToolMessage(calls[k])>> \o tool_messages(calls, k + 1)

\* the tool node: one ToolMessage per call; search_skills yields its matches
run_tools ==
    /\ pc = "tools"
    /\ LET calls == messages[LastAI(messages)].tool_calls
       IN  /\ messages' = messages \o tool_messages(calls, 1)
           /\ IF \E k \in 1..Len(calls) : calls[k] = "search_skills"
              THEN \E n \in 0..MaxSkills : found' = SubSeq(AllSkillIds, 1, n)
              ELSE found' = found
    /\ pc' = "model"
    /\ UNCHANGED <<phase, phase0, ai_steps, pipeline, phase_tools, skill_tools,
                   request_tools,
                   model_tools, injected, update>>
    /\ UNCHANGED outsidePhase

\* a new user message that starts the thread over in INIT
new_turn_resetting ==
    /\ pc = "done"
    /\ ai_steps < MaxSteps
    /\ messages' = Append(messages, HumanMessage)
    /\ phase' = "init"
    /\ phase_tools' = <<>>
    /\ skill_tools' = <<>>
    /\ pc' = "model"
    /\ UNCHANGED <<phase0, ai_steps, pipeline, request_tools,
                   model_tools, injected, update, found>>
    /\ UNCHANGED outsidePhase

\* AgentService.chat_stream on the same thread: a new agent (new middleware),
\* the checkpointed state plus the new HumanMessage
new_turn ==
    /\ pc = "done"
    /\ ai_steps < MaxSteps
    /\ messages' = Append(messages, HumanMessage)
    /\ phase_tools' = <<>>
    /\ skill_tools' = <<>>
    /\ pc' = "model"
    /\ UNCHANGED <<phase, phase0, ai_steps, pipeline, request_tools,
                   model_tools, injected, update, found>>
    /\ UNCHANGED outsidePhase

NextPhase ==
    \/ awrap_model_call
    \/ aafter_model
    \/ run_tools
    \/ new_turn

PhaseSpec == InitPhase /\ [][NextPhase]_vars

\* ------------------------------------------------------------------------
\* AgentService.chat_stream: calls that name the same conversation
\* ------------------------------------------------------------------------
\* chat_stream takes no lock (AgentService._init_lock is made and never
\* acquired) and ChatService starts one producer task per request, so the
\* agent.astream runs of two requests for one conversation_id are tasks of
\* one event loop that interleave at every await.  A run reads the
\* checkpoint of the thread when it starts, works on that state, and has
\* the checkpointer store its state after each step.

\* a run of agent.astream: where it is and the phase of its state
Run(run_pc, run_phase) == [pc |-> run_pc, phase |-> run_phase]

\* chat_stream reaches agent.astream(agent_input, config=agent_config):
\* the run starts from the checkpoint of the thread_id
astream_start ==
    /\ Len(runs) < MaxRuns
    /\ runs' = Append(runs, Run("model", checkpoint))
    /\ UNCHANGED <<checkpoint, thread_steps>>
    /\ UNCHANGED outsideThread

\* one model step of a run: the model answers, aafter_model gives its
\* update, the update is merged into the state of the run and the
\* checkpointer stores that state; a step without tool calls ends the run
astream_step ==
    /\ thread_steps < MaxSteps
    /\ \E r \in 1..Len(runs), calls \in ToolCallLists :
          /\ runs[r].pc = "model"
          /\ LET upd == after_model_update(<<HumanMessage, AIMessage(calls)>>,
                                           runs[r].phase)
                 new_phase == IF upd = None THEN runs[r].phase ELSE upd.phase
             IN  /\ runs' = [runs EXCEPT ![r] =
                                Run(IF calls = <<>> THEN "done" ELSE "model",
                                    new_phase)]
                 /\ checkpoint' = new_phase
    /\ thread_steps' = thread_steps + 1
    /\ UNCHANGED outsideThread

\* a thread with a checkpoint and no run
InitThread ==
    /\ PhaseIdle
    /\ AggIdle
    /\ TurnIdle
    /\ TaskIdle
    /\ SearchIdle
    /\ checkpoint \in PersistedPhases
    /\ runs = <<>>
    /\ thread_steps = 0
    /\ streams = <<>>
    /\ ToolIdle

NextThread ==
    \/ astream_start
    \/ astream_step

ThreadSpec == InitThread /\ [][NextThread]_vars

\* ------------------------------------------------------------------------
\* Skill tools: extract_keywords, search_skills, get_skill_content
\* ------------------------------------------------------------------------
\* A tool call is a coroutine: it emits tool.start, runs its body inside
\* try/except Exception, and returns a JSON string.  search_skills and
\* get_skill_content emit tool.end and return from inside
\* `async with get_db_context()`, so the session's commit and close run
\* after their return statement and still inside the try block;
\* extract_keywords has left the session before it emits tool.end.
\* emitter.aemit delivers the event and does not raise.

\* StreamEventType.TOOL_START
TOOL_START == "tool.start"

\* StreamEventType.TOOL_END
TOOL_END == "tool.end"

\* the tools of the skill package
SkillTools == {"extract_keywords", "search_skills", "get_skill_content"}

\* runtime.context and its emitter: no context or no emitter, an emitter
\* without aemit, an emitter with aemit
Emitters == {"none", "no_aemit", "aemit"}

\* how the body of the try block can end for each tool
Outcomes(name) ==
    IF name = "extract_keywords" THEN {"success", "error"}
    ELSE IF name = "search_skills" THEN {"success", "empty", "error"}
    ELSE {"success", "not_found", "error"}

\* json.dumps(...) of the tool: a JSON string, named by what it holds
Json(holds) == [json |-> holds]

\* `if emitter and hasattr(emitter, "aemit"): await emitter.aemit(...)`
aemit(events, emitter, type, payload) ==
    IF emitter = "aemit" THEN Append(events, Event(type, payload)) ELSE events

\* the payload of tool.end
end_payload(inv, status) ==
    [tool_call_id |-> inv.tool_call_id, name |-> inv.name, status |-> status]

\* the except branch: tool.end with status error, and the error JSON
except_branch ==
    /\ sink' = aemit(sink, invocation.emitter, TOOL_END,
                     end_payload(invocation, "error"))
    /\ returned' = Json("error")
    /\ tool_pc' = "returned"

\* the agent calls a tool: tool_call_id = uuid.uuid4().hex, tool.start
tool_start ==
    /\ tool_pc = "idle"
    /\ invocations < MaxInvocations
    /\ \E name \in SkillTools, emitter \in Emitters :
          LET tool_call_id == invocations + 1
          IN  /\ invocation' = [name |-> name, tool_call_id |-> tool_call_id,
                                emitter |-> emitter, value |-> None]
              /\ sink' = aemit(sink, emitter, TOOL_START,
                               [tool_call_id |-> tool_call_id, name |-> name])
    /\ tool_pc' = "body"
    /\ invocations' = invocations + 1
    /\ UNCHANGED returned
    /\ UNCHANGED outsideTool

\* the body of the try block up to its return statement or its exception
tool_body ==
    /\ tool_pc = "body"
    /\ \E outcome \in Outcomes(invocation.name) :
          IF outcome = "error"
          THEN except_branch /\ UNCHANGED invocation
          ELSE /\ sink' = aemit(sink, invocation.emitter, TOOL_END,
                                end_payload(invocation, outcome))
               /\ IF invocation.name = "extract_keywords"
                  THEN /\ returned' = Json(outcome)
                       /\ tool_pc' = "returned"
                       /\ UNCHANGED invocation
                  ELSE /\ invocation' =
                              [invocation EXCEPT !.value = Json(outcome)]
                       /\ tool_pc' = "leaving"
                       /\ UNCHANGED returned
    /\ UNCHANGED invocations
    /\ UNCHANGED outsideTool

\* get_db_context on the way out of `async with`: session.commit() and the
\* close of the session either succeed or raise
tool_leave_session ==
    /\ tool_pc = "leaving"
    /\ \E raised \in BOOLEAN :
          IF raised
          THEN except_branch
          ELSE /\ returned' = invocation.value
               /\ tool_pc' = "returned"
               /\ UNCHANGED sink
    /\ UNCHANGED <<invocation, invocations>>
    /\ UNCHANGED outsideTool

\* the caller has the tool's result
tool_finish ==
    /\ tool_pc = "returned"
    /\ tool_pc' = "idle"
    /\ invocation' = NoInvocation
    /\ UNCHANGED <<sink, returned, invocations>>
    /\ UNCHANGED outsideTool

InitTool ==
    /\ PhaseIdle
    /\ AggIdle
    /\ TurnIdle
    /\ TaskIdle
    /\ SearchIdle
    /\ ThreadIdle
    /\ ToolIdle

NextTool ==
    \/ tool_start
    \/ tool_body
    \/ tool_leave_session
    \/ tool_finish

ToolSpec == InitTool /\ [][NextTool]_vars

\* ------------------------------------------------------------------------
\* Skill search: strings
\* ------------------------------------------------------------------------
\* A str is the sequence of its characters, one string per character; a CJK
\* character is written as its code point ("u5b66").

\* str.lower()
lower(s) ==
    LET ascii_lower ==
            [A |-> "a", B |-> "b", C |-> "c", D |-> "d", E |-> "e",
             F |-> "f", G |-> "g", H |-> "h", I |-> "i", J |-> "j",
             K |-> "k", L |-> "l", M |-> "m", N |-> "n", O |-> "o",
             P |-> "p", Q |-> "q", R |-> "r", S |-> "s", T |-> "t",
             U |-> "u", V |-> "v", W |-> "w", X |-> "x", Y |-> "y",
             Z |-> "z"]
    IN  [i \in 1..Len(s) |->
             IF s[i] \in DOMAIN ascii_lower THEN ascii_lower[s[i]] ELSE s[i]]

\* a in b, for two str
contains(b, a) ==
    \E i \in 0..(Len(b) - Len(a)) : SubSeq(b, i + 1, i + Len(a)) = a

\* xs[:n] for n >= 0
slice_to(xs, n) == SubSeq(xs, 1, IF n < Len(xs) THEN n ELSE Len(xs))

\* x in xs, for a list
in_list(x, xs) == \E i \in 1..Len(xs) : xs[i] = x

\* sep.join(words)
RECURSIVE join(_, _)
join(sep, words) ==
    IF words = <<>> THEN <<>>
    ELSE IF Len(words) = 1 THEN words[1]
    ELSE words[1] \o sep \o join(sep, Tail(words))

\* dict.get(key, default); a dict is a function of its keys
get(d, key, default) == IF key \in DOMAIN d THEN d[key] ELSE default

\* ------------------------------------------------------------------------
\* IntentExtractor
\* ------------------------------------------------------------------------

\* words of a user message in the bounded inputs
MaxWords == 3

\* re.sub(r'[^\w\s\u4e00-\u9fff]', ' ', text); Punctuation is the
\* characters outside the class that a text is written with
remove_punctuation(text) ==
    LET Punctuation ==
            {"?", "!", ",", ".", ":", "-", "+", "(", ")", "|", "\\"}
    IN  [i \in 1..Len(text) |->
            IF text[i] \in Punctuation THEN " " ELSE text[i]]

\* str.split(): the maximal runs of non-whitespace characters
RECURSIVE split(_)
split(text) ==
    LET Whitespace == {" ", "\t", "\n"}
        first_word_len ==
            CHOOSE k \in 0..Len(text) :
                /\ \A j \in 1..k : text[j] \notin Whitespace
                /\ k = Len(text) \/ text[k + 1] \in Whitespace
    IN  IF text = <<>> THEN <<>>
        ELSE IF text[1] \in Whitespace THEN split(Tail(text))
        ELSE <<SubSeq(text, 1, first_word_len)>>
                 \o split(SubSeq(text, first_word_len + 1, Len(text)))

stopwords == {
    <<"u7684">>, <<"u4e86">>, <<"u662f">>, <<"u5728">>, <<"u6211">>,
    <<"u6709">>, <<"u548c">>, <<"u5c31">>, <<"u4e0d">>, <<"u4eba">>,
    <<"u90fd">>, <<"u4e00">>, <<"u4e2a">>, <<"u4e0a">>, <<"u4e5f">>,
    <<"u5f88">>, <<"u5230">>, <<"u8bf4">>, <<"u8981">>, <<"u53bb">>,
    <<"u4f60">>, <<"u4f1a">>, <<"u7740">>, <<"u6ca1", "u6709">>,
    <<"u770b">>, <<"u597d">>, <<"u81ea", "u5df1">>, <<"u8fd9">>,
    <<"u90a3">>, <<"u4ec0", "u4e48">>, <<"u600e", "u4e48">>,
    <<"u5982", "u4f55">>, <<"t", "h", "e">>, <<"a">>, <<"a", "n">>,
    <<"i", "s">>, <<"a", "r", "e">>, <<"w", "a", "s">>,
    <<"w", "e", "r", "e">>, <<"b", "e">>, <<"b", "e", "e", "n">>,
    <<"b", "e", "i", "n", "g">>, <<"h", "a", "v", "e">>, <<"h", "a", "s">>,
    <<"h", "a", "d">>, <<"d", "o">>, <<"d", "o", "e", "s">>,
    <<"d", "i", "d">>, <<"w", "i", "l", "l">>, <<"w", "o", "u", "l", "d">>,
    <<"c", "o", "u", "l", "d">>, <<"s", "h", "o", "u", "l", "d">>,
    <<"m", "a", "y">>, <<"m", "i", "g", "h", "t">>, <<"m", "u", "s", "t">>,
    <<"s", "h", "a", "l", "l">>, <<"c", "a", "n">>, <<"n", "e", "e", "d">>,
    <<"d", "a", "r", "e">>, <<"o", "u", "g", "h", "t">>,
    <<"u", "s", "e", "d">>, <<"t", "o">>, <<"o", "f">>, <<"i", "n">>,
    <<"f", "o", "r">>, <<"o", "n">>, <<"w", "i", "t", "h">>, <<"a", "t">>,
    <<"b", "y">>, <<"f", "r", "o", "m">>, <<"a", "b", "o", "u", "t">>,
    <<"a", "s">>, <<"i", "n", "t", "o">>,
    <<"t", "h", "r", "o", "u", "g", "h">>,
    <<"d", "u", "r", "i", "n", "g">>, <<"b", "e", "f", "o", "r", "e">>,
    <<"a", "f", "t", "e", "r">>, <<"a", "b", "o", "v", "e">>,
    <<"b", "e", "l", "o", "w">>, <<"b", "e", "t", "w", "e", "e", "n">>,
    <<"u", "n", "d", "e", "r">>, <<"a", "g", "a", "i", "n">>,
    <<"f", "u", "r", "t", "h", "e", "r">>, <<"t", "h", "e", "n">>,
    <<"o", "n", "c", "e">>, <<"h", "e", "r", "e">>,
    <<"t", "h", "e", "r", "e">>, <<"w", "h", "e", "n">>,
    <<"w", "h", "e", "r", "e">>, <<"w", "h", "y">>, <<"h", "o", "w">>,
    <<"a", "l", "l">>, <<"e", "a", "c", "h">>, <<"f", "e", "w">>,
    <<"m", "o", "r", "e">>, <<"m", "o", "s", "t">>,
    <<"o", "t", "h", "e", "r">>, <<"s", "o", "m", "e">>,
    <<"s", "u", "c", "h">>, <<"n", "o">>, <<"n", "o", "r">>,
    <<"n", "o", "t">>, <<"o", "n", "l", "y">>, <<"o", "w", "n">>,
    <<"s", "a", "m", "e">>, <<"s", "o">>, <<"t", "h", "a", "n">>,
    <<"t", "o", "o">>, <<"v", "e", "r", "y">>, <<"s">>, <<"t">>,
    <<"j", "u", "s", "t">>, <<"d", "o", "n">>, <<"n", "o", "w">>, <<"i">>,
    <<"m", "e">>, <<"m", "y">>, <<"m", "y", "s", "e", "l", "f">>,
    <<"w", "e">>, <<"o", "u", "r">>, <<"o", "u", "r", "s">>,
    <<"y", "o", "u">>, <<"y", "o", "u", "r">>, <<"h", "e">>,
    <<"h", "i", "m">>, <<"h", "i", "s">>, <<"s", "h", "e">>,
    <<"h", "e", "r">>, <<"i", "t">>, <<"i", "t", "s">>,
    <<"t", "h", "e", "y">>, <<"t", "h", "e", "m">>,
    <<"t", "h", "e", "i", "r">>, <<"w", "h", "a", "t">>,
    <<"w", "h", "i", "c", "h">>, <<"w", "h", "o">>, <<"w", "h", "o", "m">>,
    <<"t", "h", "i", "s">>, <<"t", "h", "a", "t">>, <<"u60f3">>,
    <<"u8bf7">>, <<"u5e2e">>, <<"u544a", "u8bc9">>, <<"u4ecb", "u7ecd">>,
    <<"u4e86", "u89e3">>, <<"u5b66", "u4e60">>, <<"u4f7f", "u7528">>}

\* keywords[:10]
MaxKeywords == 10

\* IntentExtractor._extract_keywords_basic (word.strip() changes no word
\* that split returned)
extract_keywords_basic(text) ==
    LET is_keyword(word) == Len(word) >= 2 /\ lower(word) \notin stopwords
    IN  slice_to(SelectSeq(split(remove_punctuation(text)), is_keyword),
                 MaxKeywords)

\* the words _detect_intent_basic looks for, by intent
intent_words ==
    [learn |-> {
        <<"u5b66", "u4e60">>, <<"u4e86", "u89e3">>, <<"u5165", "u95e8">>,
        <<"l", "e", "a", "r", "n">>, <<"u6559", "u7a0b">>,
        <<"u600e", "u4e48", "u7528">>},
     compare |-> {
        <<"u6bd4", "u8f83">>, <<"u5bf9", "u6bd4">>, <<"v", "s">>,
        <<"u533a", "u522b">>, <<"u54ea", "u4e2a", "u597d">>,
        <<"c", "o", "m", "p", "a", "r", "e">>},
     create |-> {
        <<"u521b", "u5efa">>, <<"u751f", "u6210">>, <<"u5199">>,
        <<"u5b9e", "u73b0">>, <<"c", "r", "e", "a", "t", "e">>,
        <<"b", "u", "i", "l", "d">>, <<"m", "a", "k", "e">>},
     ask |-> {
        <<"u4e3a", "u4ec0", "u4e48">>, <<"u600e", "u4e48">>,
        <<"u5982", "u4f55">>, <<"w", "h", "y">>, <<"h", "o", "w">>,
        <<"w", "h", "a", "t">>}]

\* _detect_intent_basic testing the words of a question first
detect_intent_basic_ask_first(text) ==
    LET text_lower == lower(text)
        any_in(words) == \E kw \in words : contains(text_lower, kw)
    IN  IF any_in(intent_words.ask) THEN "ask"
        ELSE IF any_in(intent_words.learn) THEN "learn"
        ELSE IF any_in(intent_words.compare) THEN "compare"
        ELSE IF any_in(intent_words.create) THEN "create"
        ELSE "search"

\* IntentExtractor._detect_intent_basic
detect_intent_basic(text) ==
    LET text_lower == lower(text)
        any_in(words) == \E kw \in words : contains(text_lower, kw)
    IN  IF any_in(intent_words.learn) THEN "learn"
        ELSE IF any_in(intent_words.compare) THEN "compare"
        ELSE IF any_in(intent_words.create) THEN "create"
        ELSE IF any_in(intent_words.ask) THEN "ask"
        ELSE "search"

\* a JSON array and a JSON string as json.loads returns them
JList(items) == [type |-> "list", items |-> items]
JStr(chars) == [type |-> "str", chars |-> chars]

\* the dict {}
EmptyDict == <<>>

\* re.search(r'\{[^{}]*\}', content): the first brace group that holds no
\* brace. The content is prose without a brace group, a brace group that is
\* not JSON, or a JSON object; in a JSON object whose entities are objects
\* the group is the first entity, otherwise the object itself.
json_match(content) ==
    IF content.kind = "prose" THEN None
    ELSE IF content.kind = "braces" THEN [group |-> "not json"]
    ELSE IF /\ "entities" \in DOMAIN content.obj
            /\ content.obj["entities"] # <<>>
         THEN [group |-> "json", obj |-> content.obj["entities"][1]]
         ELSE [group |-> "json", obj |-> content.obj]

\* an exception leaving ainvoke
Raised == [raised |-> "Exception"]

\* IntentExtractor._extract_with_llm: None, a dict, or the exception
extract_with_llm(model) ==
    IF model = None THEN None
    ELSE IF model.raises THEN Raised
    ELSE LET m == json_match(model.content)
         IN  IF m = None THEN None
             ELSE IF m.group = "not json" THEN None
             ELSE [dict |-> m.obj]

\* list(dict.fromkeys(xs)): the first occurrences, in order
RECURSIVE fromkeys(_)
fromkeys(xs) ==
    IF xs = <<>> THEN <<>>
    ELSE LET before == fromkeys(SubSeq(xs, 1, Len(xs) - 1))
         IN  IF in_list(xs[Len(xs)], before) THEN before
             ELSE Append(before, xs[Len(xs)])

\* IntentResult
IntentResult(keywords, intent, entities, raw_query) ==
    [keywords |-> keywords, intent |-> intent, entities |-> entities,
     raw_query |-> raw_query]

\* extract with no except clause around the augmentation
extract_unguarded(message, model) ==
    LET keywords == extract_keywords_basic(message)
        intent == detect_intent_basic(message)
        baseline == IntentResult(keywords, intent, <<>>, message)
        llm_result == extract_with_llm(model)
    IN  IF model = None THEN baseline
        ELSE IF llm_result = Raised THEN Raised
        ELSE IF llm_result = None THEN baseline
        ELSE IF llm_result.dict = EmptyDict THEN baseline
        ELSE LET more == get(llm_result.dict, "keywords", JList(<<>>))
             IN  IF more.type # "list" THEN Raised
                 ELSE IntentResult(
                          fromkeys(keywords \o more.items),
                          get(llm_result.dict, "intent", intent),
                          get(llm_result.dict, "entities", <<>>),
                          message)

\* IntentExtractor.extract: the baseline, then the augmentation when a model
\* is configured; a str where the keyword list is expected makes the
\* concatenation raise TypeError before anything is assigned
extract(message, model) ==
    LET keywords == extract_keywords_basic(message)
        intent == detect_intent_basic(message)
        baseline == IntentResult(keywords, intent, <<>>, message)
        llm_result == extract_with_llm(model)
    IN  IF model = None THEN baseline
        ELSE IF llm_result = Raised THEN baseline
        ELSE IF llm_result = None THEN baseline
        ELSE IF llm_result.dict = EmptyDict THEN baseline
        ELSE LET more == get(llm_result.dict, "keywords", JList(<<>>))
             IN  IF more.type # "list" THEN baseline
                 ELSE IntentResult(
                          fromkeys(keywords \o more.items),
                          get(llm_result.dict, "intent", intent),
                          get(llm_result.dict, "entities", <<>>),
                          message)

\* the user messages extract is called with: up to MaxWords words with a
\* space between them, and three messages given whole. The words are a
\* question word that is a stopword, an intent word, a keyword in two cases,
\* a one-letter word, a keyword holding a question word, and a CJK intent
\* word holding another.
Texts ==
    LET Vocabulary == {
    <<"h", "o", "w">>, <<"l", "e", "a", "r", "n">>,
    <<"p", "y", "t", "h", "o", "n">>, <<"P", "y", "t", "h", "o", "n">>,
    <<"c">>, <<"s", "h", "o", "w">>, <<"u600e", "u4e48", "u7528">>}
        FixedTexts == {
            <<"h", "o", "w", " ", "t", "o", " ", "u", "s", "e", " ", "d", "e", "c", "o", "r", "a", "t", "o", "r", " ", "i", "n", " ", "p", "y", "t", "h", "o", "n">>,
            <<"W", "h", "a", "t", " ", "i", "s", " ", "P", "y", "t", "h", "o", "n", "?">>,
            <<"a", "a", " ", "b", "b", " ", "c", "c", " ", "d", "d", " ", "e", "e", " ", "f", "f", " ", "g", "g", " ", "h", "h", " ", "i", "i", " ", "j", "j", " ", "k", "k">>}
    IN  {join(<<" ">>, ws) :
             ws \in UNION {[1..k -> Vocabulary] : k \in 0..MaxWords}}
            \cup FixedTexts

\* what the configured model does when invoked: it raises, or it returns a
\* message whose content is prose without a brace group, a brace group that
\* is not JSON, or a JSON object - the empty object, objects with and without
\* entities, with and without intent, and one whose keywords are a string
Llms ==
    LET AugKeywords == {
            <<>>,
            <<<<"p", "y", "t", "h", "o", "n">>, <<"f", "l", "a", "s", "k">>>>,
            <<<<"f", "l", "a", "s", "k">>, <<"f", "l", "a", "s", "k">>>>}
        LanguageEntity == [type |-> "language", value |-> <<"P", "y", "t", "h", "o", "n">>]
        LlmObjects ==
            {EmptyDict, [intent |-> "compare"],
             [keywords |-> JStr(<<"f", "l", "a", "s", "k">>)]}
                \cup {[keywords |-> JList(ks), intent |-> "learn"] :
                          ks \in AugKeywords}
                \cup {[keywords |-> JList(ks), intent |-> "learn",
                       entities |-> es] :
                          ks \in AugKeywords,
                          es \in {<<>>, <<LanguageEntity>>}}
        Prose == [kind |-> "prose", obj |-> EmptyDict]
        NotJson == [kind |-> "braces", obj |-> EmptyDict]
    IN  {None, [raises |-> TRUE, content |-> Prose],
         [raises |-> FALSE, content |-> Prose],
         [raises |-> FALSE, content |-> NotJson]}
            \cup {[raises |-> FALSE,
                   content |-> [kind |-> "json", obj |-> o]] :
                      o \in LlmObjects}

\* a tool calls IntentExtractor.extract(user_message)
call_extract ==
    /\ intent_result = None
    /\ intent_result' = extract(user_message, llm)
    /\ UNCHANGED <<user_message, llm, hash_seed, built, query, skills,
                   scored, search_result>>
    /\ UNCHANGED outsideSearch

\* an extractor constructed with or without a model, and a message
InitIntent ==
    /\ ThreadIdle
    /\ ToolIdle
    /\ PhaseIdle
    /\ AggIdle
    /\ TurnIdle
    /\ TaskIdle
    /\ user_message \in Texts
    /\ llm \in Llms
    /\ intent_result = None
    /\ hash_seed = <<1, 2, 3>>
    /\ built = <<>>
    /\ query = None
    /\ skills = <<>>
    /\ scored = <<>>
    /\ search_result = None

NextIntent == call_extract

IntentSpec == InitIntent /\ [][NextIntent]_vars

\* ------------------------------------------------------------------------
\* QueryBuilder
\* ------------------------------------------------------------------------
\* Weights are written in tenths (1.0 is 10), scores in thousandths.

\* keywords of an IntentResult in the bounded inputs
MaxQueryKeywords == 2

\* builds of one IntentResult
MaxBuilds == 2

\* QueryCondition
QueryCondition(type, pattern, weight, field) ==
    [type |-> type, pattern |-> pattern, weight |-> weight, field |-> field]

\* SearchQuery.limit: int = 10
DefaultLimit == 10

\* SearchQuery.min_score: float = 0.3
DefaultMinScore == 300

\* SearchQuery
SearchQuery(conditions, intent, limit, min_score) ==
    [conditions |-> conditions, intent |-> intent, limit |-> limit,
     min_score |-> min_score]

\* QueryBuilder.SYNONYMS, in the order of the dict
SYNONYMS == <<
    [key |-> <<"u88c5", "u9970", "u5668">>,
     values |-> <<<<"d", "e", "c", "o", "r", "a", "t", "o", "r">>, <<"w", "r", "a", "p", "p", "e", "r">>>>],
    [key |-> <<"d", "e", "c", "o", "r", "a", "t", "o", "r">>,
     values |-> <<<<"u88c5", "u9970", "u5668">>, <<"w", "r", "a", "p", "p", "e", "r">>>>],
    [key |-> <<"u51fd", "u6570">>,
     values |-> <<<<"f", "u", "n", "c", "t", "i", "o", "n">>, <<"f", "u", "n", "c">>, <<"u65b9", "u6cd5">>>>],
    [key |-> <<"f", "u", "n", "c", "t", "i", "o", "n">>,
     values |-> <<<<"u51fd", "u6570">>, <<"f", "u", "n", "c">>, <<"u65b9", "u6cd5">>>>],
    [key |-> <<"u7c7b">>,
     values |-> <<<<"c", "l", "a", "s", "s">>, <<"u7c7b", "u578b">>>>],
    [key |-> <<"c", "l", "a", "s", "s">>,
     values |-> <<<<"u7c7b">>, <<"u7c7b", "u578b">>>>],
    [key |-> <<"u63a5", "u53e3">>,
     values |-> <<<<"i", "n", "t", "e", "r", "f", "a", "c", "e">>, <<"a", "p", "i">>>>],
    [key |-> <<"i", "n", "t", "e", "r", "f", "a", "c", "e">>,
     values |-> <<<<"u63a5", "u53e3">>, <<"a", "p", "i">>>>],
    [key |-> <<"u5f02", "u6b65">>,
     values |-> <<<<"a", "s", "y", "n", "c">>, <<"a", "s", "y", "n", "c", "i", "o">>, <<"u534f", "u7a0b">>>>],
    [key |-> <<"a", "s", "y", "n", "c">>,
     values |-> <<<<"u5f02", "u6b65">>, <<"a", "s", "y", "n", "c", "i", "o">>, <<"u534f", "u7a0b">>>>],
    [key |-> <<"u6570", "u636e", "u5e93">>,
     values |-> <<<<"d", "a", "t", "a", "b", "a", "s", "e">>, <<"d", "b">>, <<"s", "q", "l">>>>],
    [key |-> <<"d", "a", "t", "a", "b", "a", "s", "e">>,
     values |-> <<<<"u6570", "u636e", "u5e93">>, <<"d", "b">>, <<"s", "q", "l">>>>],
    [key |-> <<"u6846", "u67b6">>,
     values |-> <<<<"f", "r", "a", "m", "e", "w", "o", "r", "k">>>>],
    [key |-> <<"f", "r", "a", "m", "e", "w", "o", "r", "k">>,
     values |-> <<<<"u6846", "u67b6">>>>]>>

\* QueryBuilder.INTENT_CATEGORY_MAP
INTENT_CATEGORY_MAP ==
    [learn |-> <<<<"u6559", "u7a0b">>, <<"u5165", "u95e8">>, <<"u57fa", "u7840">>>>,
     search |-> <<>>,
     compare |-> <<<<"u5bf9", "u6bd4">>, <<"u6bd4", "u8f83">>>>,
     ask |-> <<<<"u95ee", "u7b54">>, <<"F", "A", "Q">>>>,
     create |-> <<<<"u6a21", "u677f">>, <<"u793a", "u4f8b">>, <<"u4ee3", "u7801">>>>]

\* the orders in which a process can iterate a set of up to three str: the
\* hash of a str depends on the seed the interpreter drew when it started
HashSeeds == Permutations(1..3)

\* list(set(xs)): the distinct elements, in the order the hash seed gives
list_of_set(xs, seed) ==
    LET distinct == fromkeys(xs)
        n == Len(distinct)
        rank(i) == IF i <= 3 THEN seed[i] ELSE i
        nth(k) == CHOOSE i \in 1..n :
                      Cardinality({j \in 1..n : rank(j) <= rank(i)}) = k
    IN  [k \in 1..n |-> distinct[nth(k)]]

\* the list the loop of _get_synonyms builds over the first n entries
RECURSIVE collect_synonyms(_, _)
collect_synonyms(keyword_lower, n) ==
    LET entry == SYNONYMS[n]
        values_lower ==
            [i \in 1..Len(entry.values) |-> lower(entry.values[i])]
    IN  IF n = 0 THEN <<>>
        ELSE collect_synonyms(keyword_lower, n - 1)
                 \o (IF lower(entry.key) = keyword_lower THEN entry.values
                     ELSE IF in_list(keyword_lower, values_lower)
                          THEN <<entry.key>>
                          ELSE <<>>)

\* [:3]
MaxSynonyms == 3

\* _get_synonyms looking the keyword up among the keys only
get_synonyms_keys_only(keyword, seed) ==
    LET keyword_lower == lower(keyword)
        entries == SelectSeq(SYNONYMS,
                             LAMBDA e : lower(e.key) = keyword_lower)
    IN  slice_to(list_of_set(IF entries = <<>> THEN <<>>
                             ELSE entries[1].values, seed),
                 MaxSynonyms)

\* QueryBuilder._get_synonyms
get_synonyms(keyword, seed) ==
    slice_to(list_of_set(collect_synonyms(lower(keyword), Len(SYNONYMS)),
                         seed),
             MaxSynonyms)

\* re.escape; SpecialChars is the characters it puts a backslash before, of
\* those a text is written with
RECURSIVE re_escape(_)
re_escape(s) ==
    LET SpecialChars ==
            {"?", ".", "-", "+", "(", ")", "|", "\\", " ", "\t", "\n"}
    IN  IF s = <<>> THEN <<>>
        ELSE (IF s[1] \in SpecialChars THEN <<"\\", s[1]>> ELSE <<s[1]>>)
                 \o re_escape(Tail(s))

\* build, step 1: for each keyword its condition, then those of its synonyms
RECURSIVE keyword_conditions(_, _)
keyword_conditions(keywords, seed) ==
    IF keywords = <<>> THEN <<>>
    ELSE LET synonyms == get_synonyms(keywords[1], seed)
         IN  <<QueryCondition("keyword", keywords[1], 10, "all")>>
                 \o [i \in 1..Len(synonyms) |->
                        QueryCondition("keyword", synonyms[i], 8, "all")]
                 \o keyword_conditions(Tail(keywords), seed)

\* build, step 2: the conditions of the entities
RECURSIVE entity_conditions(_)
entity_conditions(entities) ==
    IF entities = <<>> THEN <<>>
    ELSE LET entity_type == get(entities[1], "type", "")
             entity_value == get(entities[1], "value", <<>>)
         IN  (IF entity_type = "language"
              THEN <<QueryCondition("category", entity_value, 12, "category")>>
              ELSE IF entity_type \in {"framework", "tool"}
              THEN <<QueryCondition("keyword", entity_value, 11, "name")>>
              ELSE <<>>)
                 \o entity_conditions(Tail(entities))

\* QueryBuilder.build: steps 1 and 2, then one tag condition per category
\* of the intent, then the OR of the escaped keywords when there is one
build(ir, seed) ==
    LET intent_categories == get(INTENT_CATEGORY_MAP, ir.intent, <<>>)
        tag_conditions ==
            [i \in 1..Len(intent_categories) |->
                QueryCondition("tag", intent_categories[i], 5, "tags")]
        regex_pattern ==
            join(<<"|">>,
                 [i \in 1..Len(ir.keywords) |-> re_escape(ir.keywords[i])])
        regex_conditions ==
            IF ir.keywords = <<>> THEN <<>>
            ELSE <<QueryCondition("regex", regex_pattern, 9, "content")>>
    IN  SearchQuery(keyword_conditions(ir.keywords, seed)
                        \o entity_conditions(ir.entities)
                        \o tag_conditions
                        \o regex_conditions,
                    ir.intent, DefaultLimit, DefaultMinScore)

\* the IntentResults given to build. The keywords are a key of the table in
\* two cases, a value of the table, a key with three synonyms, a word
\* outside the table that re.escape changes. The entities are none, or a
\* language, a framework, a type build ignores and an entity with no value.
IntentResults ==
    LET KeywordPool ==
            {
    <<"d", "e", "c", "o", "r", "a", "t", "o", "r">>,
    <<"D", "e", "c", "o", "r", "a", "t", "o", "r">>,
    <<"w", "r", "a", "p", "p", "e", "r">>,
    <<"f", "u", "n", "c", "t", "i", "o", "n">>, <<"c", "+", "+">>}
        EntityLists ==
            {<<>>,
             <<[type |-> "language", value |-> <<"P", "y", "t", "h", "o", "n">>],
               [type |-> "framework", value |-> <<"f", "l", "a", "s", "k">>],
               [type |-> "concept", value |-> <<"c", "l", "o", "s", "u", "r", "e">>],
               [type |-> "tool"]>>}
    IN  {IntentResult(ks, intent, es, <<>>) :
             ks \in UNION {[1..k -> KeywordPool] : k \in 0..MaxQueryKeywords},
             intent \in {"learn", "search", "plan"},
             es \in EntityLists}

\* QueryBuilder().build(intent_result)
call_build ==
    /\ intent_result # None
    /\ Len(built) < MaxBuilds
    /\ query' = build(intent_result, hash_seed)
    /\ built' = Append(built, query')
    /\ UNCHANGED <<user_message, llm, intent_result, hash_seed, skills,
                   scored, search_result>>
    /\ UNCHANGED outsideSearch

\* the process ends and another serves the next call: a new hash seed
restart ==
    /\ built # <<>>
    /\ Len(built) < MaxBuilds
    /\ hash_seed' \in HashSeeds \ {hash_seed}
    /\ UNCHANGED <<user_message, llm, intent_result, built, query, skills,
                   scored, search_result>>
    /\ UNCHANGED outsideSearch

\* an interpreter process and an IntentResult to build a query from
InitQuery ==
    /\ ThreadIdle
    /\ ToolIdle
    /\ PhaseIdle
    /\ AggIdle
    /\ TurnIdle
    /\ TaskIdle
    /\ user_message = <<>>
    /\ llm = None
    /\ intent_result \in IntentResults
    /\ hash_seed \in HashSeeds
    /\ built = <<>>
    /\ query = None
    /\ skills = <<>>
    /\ scored = <<>>
    /\ search_result = None

NextQuery ==
    \/ call_build
    \/ restart

QuerySpec == InitQuery /\ [][NextQuery]_vars

\* ------------------------------------------------------------------------
\* SkillSearcher
\* ------------------------------------------------------------------------

\* rows of the skill table in the bounded inputs
MaxRows == 2

\* conditions of a query in the bounded inputs
MaxConditions == 2

\* (skill.content or "").lower()[:1000]
ContentLimit == 1000

\* (skill.content or "")[:200]
PreviewLimit == 200

\* a row of the skill table
Skill(id, name, description, content, trigger_keywords, category, is_active) ==
    [id |-> id, name |-> name, description |-> description,
     content |-> content, trigger_keywords |-> trigger_keywords,
     category |-> category, is_active |-> is_active]

\* SkillMatch
SkillMatch(skill_id, name, description, category, score, matched_by, matched_keywords, preview) ==
    [skill_id |-> skill_id, name |-> name, description |-> description,
     category |-> category, score |-> score, matched_by |-> matched_by,
     matched_keywords |-> matched_keywords, preview |-> preview]

\* _match_skill: search_texts
search_texts(skill) ==
    [name |-> lower(skill.name),
     description |-> lower(skill.description),
     content |-> slice_to(lower(skill.content), ContentLimit),
     keywords |-> lower(join(<<" ">>, skill.trigger_keywords)),
     category |-> lower(skill.category),
     all |-> lower(skill.name \o <<" ">> \o skill.description \o <<" ">>
                       \o skill.content)]

\* the characters of a pattern that no backslash precedes
RECURSIVE unescaped(_)
unescaped(pattern) ==
    IF pattern = <<>> THEN <<>>
    ELSE IF pattern[1] = "\\" THEN unescaped(SubSeq(pattern, 3, Len(pattern)))
    ELSE <<pattern[1]>> \o unescaped(Tail(pattern))

\* the literals a pattern is the OR of, their escapes removed
RECURSIVE alternatives(_, _)
alternatives(pattern, literal) ==
    IF pattern = <<>> THEN <<literal>>
    ELSE IF pattern[1] = "\\" /\ Len(pattern) >= 2
         THEN alternatives(SubSeq(pattern, 3, Len(pattern)),
                           Append(literal, pattern[2]))
    ELSE IF pattern[1] = "|"
         THEN <<literal>> \o alternatives(Tail(pattern), <<>>)
    ELSE alternatives(Tail(pattern), Append(literal, pattern[1]))

\* re.search(pattern, text, re.IGNORECASE) finds a match. The patterns of
\* the model are escaped literals joined by "|", and patterns with a
\* parenthesis that nothing closes: those do not compile, re.error is raised
\* and caught, and the condition does not match.
re_search(pattern, text) ==
    LET compiles == /\ ~in_list("(", unescaped(pattern))
                    /\ ~in_list(")", unescaped(pattern))
        literals == alternatives(pattern, <<>>)
    IN  /\ compiles
        /\ \E i \in 1..Len(literals) :
               contains(lower(text), lower(literals[i]))

\* the condition matches the skill: matched, after the tests of one round
matched(cond, texts) ==
    LET field_text == get(texts, cond.field, texts["all"])
    IN  IF cond.type = "keyword" THEN contains(field_text, lower(cond.pattern))
        ELSE IF cond.type = "regex" THEN re_search(cond.pattern, field_text)
        ELSE IF cond.type = "category"
             THEN contains(texts["category"], lower(cond.pattern))
        ELSE IF cond.type = "tag" THEN contains(field_text, lower(cond.pattern))
        ELSE FALSE

\* one round of the loop of _match_skill with every match naming its kind
match_condition_naming_all(cond, texts, acc) ==
    IF ~matched(cond, texts) THEN acc
    ELSE [total_score |-> acc.total_score + cond.weight,
          matched_keywords |->
              IF cond.type = "keyword"
              THEN Append(acc.matched_keywords, cond.pattern)
              ELSE acc.matched_keywords,
          matched_by |-> cond.type,
          max_weight |-> IF cond.weight > acc.max_weight THEN cond.weight
                         ELSE acc.max_weight]

\* one round of the loop of _match_skill: only a regex and a category match
\* assign matched_by
match_condition(cond, texts, acc) ==
    IF ~matched(cond, texts) THEN acc
    ELSE [total_score |-> acc.total_score + cond.weight,
          matched_keywords |->
              IF cond.type = "keyword"
              THEN Append(acc.matched_keywords, cond.pattern)
              ELSE acc.matched_keywords,
          matched_by |-> IF cond.type \in {"regex", "category"} THEN cond.type
                         ELSE acc.matched_by,
          max_weight |-> IF cond.weight > acc.max_weight THEN cond.weight
                         ELSE acc.max_weight]

\* the loop of _match_skill over the first n conditions
RECURSIVE match_conditions(_, _, _)
match_conditions(conditions, texts, n) ==
    IF n = 0
    THEN [total_score |-> 0, matched_keywords |-> <<>>,
          matched_by |-> "keyword", max_weight |-> 0]
    ELSE match_condition(conditions[n], texts,
                         match_conditions(conditions, texts, n - 1))

\* the score of _match_skill without the last min(normalized_score, 1.0)
score_of_unclamped(total_score, condition_count, name_matched) ==
    LET den == 10 * (IF condition_count > 1 THEN condition_count ELSE 1)
        num == IF total_score > den THEN den ELSE total_score
        round3(n, d) ==
            LET whole == (1000 * n) \div d
                rest == (1000 * n) % d
            IN  IF 2 * rest > d \/ (2 * rest = d /\ whole % 2 = 1)
                THEN whole + 1 ELSE whole
    IN  IF name_matched THEN round3(12 * num, 10 * den) ELSE round3(num, den)

\* the score of _match_skill, in thousandths, of a total weight in tenths:
\* min(total / max(len, 1), 1.0), times 1.2 on a name match, min(.., 1.0),
\* round(.., 3); round3 rounds the fraction n/d, half to even
score_of(total_score, condition_count, name_matched) ==
    LET den == 10 * (IF condition_count > 1 THEN condition_count ELSE 1)
        num == IF total_score > den THEN den ELSE total_score
        round3(n, d) ==
            LET whole == (1000 * n) \div d
                rest == (1000 * n) % d
            IN  IF 2 * rest > d \/ (2 * rest = d /\ whole % 2 = 1)
                THEN whole + 1 ELSE whole
        boosted == IF name_matched THEN 12 * num ELSE 10 * num
    IN  round3(IF boosted > 10 * den THEN 10 * den ELSE boosted, 10 * den)

\* SkillSearcher._match_skill
match_skill(skill, q) ==
    LET texts == search_texts(skill)
        acc == match_conditions(q.conditions, texts, Len(q.conditions))
        name_matched ==
            \E i \in 1..Len(acc.matched_keywords) :
                contains(texts["name"], lower(acc.matched_keywords[i]))
    IN  IF acc.total_score = 0 THEN None
        ELSE SkillMatch(skill.id, skill.name, skill.description,
                        skill.category,
                        score_of(acc.total_score, Len(q.conditions),
                                 name_matched),
                        acc.matched_by, acc.matched_keywords,
                        slice_to(skill.content, PreviewLimit))

\* select(Skill).where(Skill.is_active == True)
active_skills(rows) == SelectSeq(rows, LAMBDA row : row.is_active)

\* list.sort(key=lambda m: m.score, reverse=True): by score, the higher
\* first, equal scores in the order they had
sort_by_score(ms) ==
    LET n == Len(ms)
        before(i, j) == ms[i].score > ms[j].score
                            \/ (ms[i].score = ms[j].score /\ i <= j)
        nth(k) == CHOOSE i \in 1..n :
                      Cardinality({j \in 1..n : before(j, i)}) = k
    IN  [k \in 1..n |-> ms[nth(k)]]

\* what _match_skill returns for each skill, in order
match_all(candidates, q) ==
    [i \in 1..Len(candidates) |-> match_skill(candidates[i], q)]

\* SearchResult, without the time the search took
SearchResult(ms) == [matches |-> ms, total_count |-> Len(ms)]

\* search cutting the list to the limit before it sorts it
search_limit_first(q, rows) ==
    SearchResult(
        sort_by_score(
            slice_to(SelectSeq(SelectSeq(match_all(active_skills(rows), q),
                                         LAMBDA m : m # None),
                               LAMBDA m : m.score >= q.min_score),
                     q.limit)))

\* SkillSearcher.search, for a limit that is not negative
search(q, rows) ==
    SearchResult(
        slice_to(sort_by_score(
                     SelectSeq(SelectSeq(match_all(active_skills(rows), q),
                                         LAMBDA m : m # None),
                               LAMBDA m : m.score >= q.min_score)),
                 q.limit))

\* the queries given to search. The conditions are a keyword in upper case,
\* a keyword on the name with a weight above 1, the regex build makes of two
\* keywords, a regex that does not compile, a category, a tag; min_score is
\* in thousandths.
Queries ==
    LET ConditionPool == {
            QueryCondition("keyword", <<"D", "e", "c", "o", "r", "a", "t", "o", "r">>, 10, "all"),
            QueryCondition("keyword", <<"G", "u", "i", "d", "e">>, 30, "name"),
            QueryCondition("regex", <<"d", "e", "c", "o", "r", "a", "t", "o", "r", "|", "f", "l", "a", "s", "k">>, 9, "content"),
            QueryCondition("regex", <<"(">>, 9, "content"),
            QueryCondition("category", <<"p", "r", "o", "m", "p", "t">>, 12, "category"),
            QueryCondition("tag", <<"u6559", "u7a0b">>, 5, "tags")}
        MinScores == {0, DefaultMinScore, 700}
    IN  {SearchQuery(cs, "search", limit, min_score) :
             cs \in UNION {[1..k -> ConditionPool] : k \in 0..MaxConditions},
             limit \in 0..MaxRows,
             min_score \in MinScores}

\* the tables given to search: rows of a pool, none twice. The pool has two
\* active skills with "guide" in the name, one of them with a CJK tag word
\* in its content, and a deactivated skill.
Tables ==
    LET SkillPool == {
            Skill(1, <<"P", "y", "t", "h", "o", "n", " ", "D", "e", "c", "o", "r", "a", "t", "o", "r", " ", "G", "u", "i", "d", "e">>, <<"d", "e", "c", "o", "r", "a", "t", "o", "r", "s">>,
                  <<"a", " ", "d", "e", "c", "o", "r", "a", "t", "o", "r", " ", "w", "r", "a", "p", "s", " ", "a", " ", "f", "u", "n", "c", "t", "i", "o", "n">>, <<<<"w", "r", "a", "p", "p", "e", "r">>>>,
                  <<"p", "r", "o", "m", "p", "t">>, TRUE),
            Skill(2, <<"F", "l", "a", "s", "k", " ", "G", "u", "i", "d", "e">>, <<>>,
                  <<"f", "l", "a", "s", "k", " ", "w", "e", "b", " ", "u6559", "u7a0b">>, <<>>,
                  <<"t", "o", "o", "l">>, TRUE),
            Skill(3, <<"O", "l", "d", " ", "D", "e", "c", "o", "r", "a", "t", "o", "r", " ", "G", "u", "i", "d", "e">>, <<>>,
                  <<"d", "e", "c", "o", "r", "a", "t", "o", "r">>, <<>>,
                  <<"p", "r", "o", "m", "p", "t">>, FALSE)}
    IN  {rows \in UNION {[1..k -> SkillPool] : k \in 0..MaxRows} :
             \A i, j \in 1..Len(rows) : rows[i] = rows[j] => i = j}

\* SkillSearcher(session).search(query)
call_search ==
    /\ query # None
    /\ search_result = None
    /\ scored' = match_all(active_skills(skills), query)
    /\ search_result' = search(query, skills)
    /\ UNCHANGED <<user_message, llm, intent_result, hash_seed, built, query,
                   skills>>
    /\ UNCHANGED outsideSearch

\* a skill table and a query to search it with
InitSearch ==
    /\ ThreadIdle
    /\ ToolIdle
    /\ PhaseIdle
    /\ AggIdle
    /\ TurnIdle
    /\ TaskIdle
    /\ user_message = <<>>
    /\ llm = None
    /\ intent_result = None
    /\ hash_seed = <<1, 2, 3>>
    /\ built = <<>>
    /\ query \in Queries
    /\ skills \in Tables
    /\ scored = <<>>
    /\ search_result = None

NextSearch == call_search

SearchSpec == InitSearch /\ [][NextSearch]_vars

\* ------------------------------------------------------------------------
\* Phase state machine: properties
\* ------------------------------------------------------------------------

\* model steps whose aafter_model has run
StepsDone == IF pc = "after_model" THEN ai_steps - 1 ELSE ai_steps

\* the step whose aafter_model ran last called tool n
LastStepCalled(n) ==
    /\ pc \in {"tools", "done"}
    /\ Calls(messages[Len(messages)].tool_calls, n)

\* the phase after the k-th step of the retrieval pipeline
PhaseAfter == <<"skill_retrieval", "tool_preparation", "execution">>

\* C1: on a thread loaded in INIT (or with no phase yet), after a first step
\* calling extract_keywords the phase is SKILL_RETRIEVAL, after a second step
\* calling search_skills it is TOOL_PREPARATION, after a third step calling
\* get_skill_content it is EXECUTION.
C1_Pipeline ==
    (/\ phase0 \in {"init", NoPhase}
     /\ StepsDone \in 1..3
     /\ pipeline = StepsDone)
        => phase = PhaseAfter[StepsDone]

C1_Witness ==
    /\ phase0 = "init"
    /\ StepsDone = 3
    /\ pipeline = 3
    /\ LastStepCalled("get_skill_content")
    /\ phase = "execution"

\* position of a persisted phase value in the order
\* INIT < INTENT_ANALYSIS < SKILL_RETRIEVAL < TOOL_PREPARATION < EXECUTION
\* (a missing or unknown value stands for INIT)
PhaseRank(p) ==
    CASE p = "intent_analysis" -> 1
      [] p = "skill_retrieval" -> 2
      [] p = "tool_preparation" -> 3
      [] p = "execution" -> 4
      [] OTHER -> 0

\* C2: no step makes the phase regress, whatever tools the model calls, and
\* EXECUTION is never left.
C2_NoRegress ==
    [][/\ PhaseRank(phase') >= PhaseRank(phase)
       /\ (phase = "execution" => phase' = "execution")]_vars

C2_Witness ==
    /\ phase0 = "execution"
    /\ phase = "execution"
    /\ LastStepCalled("extract_keywords")

\* C3: a step calling extract_keywords on a thread persisted in
\* INTENT_ANALYSIS moves the phase to SKILL_RETRIEVAL.
C3_IntentAnalysisAdvances ==
    (/\ phase0 = "intent_analysis"
     /\ StepsDone = 1
     /\ pipeline = 1)
        => phase = "skill_retrieval"

\* the pipeline tool a phase waits for ("-" : none)
ExpectedTool(p) ==
    CASE p \in {"init", "intent_analysis"} -> "extract_keywords"
      [] p = "skill_retrieval" -> "search_skills"
      [] p = "tool_preparation" -> "get_skill_content"
      [] p = "execution" -> "-"
      [] OTHER -> "extract_keywords"

\* C4: an aafter_model call on a step whose tool calls lack the tool the
\* current phase waits for returns None and leaves the phase as it was.
C4_NoExpectedToolNoUpdate ==
    [][(/\ pc = "after_model"
        /\ ~Calls(messages[Len(messages)].tool_calls, ExpectedTool(phase)))
          => (phase' = phase /\ update' = None)]_vars

C4_Witness ==
    /\ phase = "skill_retrieval"
    /\ LastStepCalled("extract_keywords")
    /\ LastStepCalled("web_lookup")
    /\ update = None

\* C5: a persisted phase that is no SkillPhase member behaves as INIT:
\* exposure injects extract_keywords, and a step calling extract_keywords
\* moves the phase to SKILL_RETRIEVAL.
C5_ForeignPhaseIsInit ==
    /\ (pc = "after_model" /\ phase \notin SkillPhase)
          => injected = <<extract_keywords>>
    /\ (/\ phase0 \notin SkillPhase
        /\ StepsDone = 1
        /\ pipeline = 1)
          => phase = "skill_retrieval"

C5_Witness ==
    /\ phase0 = ForeignPhase
    /\ StepsDone = 1
    /\ LastStepCalled("extract_keywords")
    /\ model_tools[Len(model_tools)] = extract_keywords
    /\ phase = "skill_retrieval"

\* C6: the phase tools injected before a model step are exactly
\* [extract_keywords] in INIT and INTENT_ANALYSIS, [search_skills] in
\* SKILL_RETRIEVAL, [get_skill_content] in TOOL_PREPARATION, and in no phase
\* a pipeline tool of another phase.
C6_PhaseToolsExact ==
    pc = "after_model" =>
      /\ phase \in {"init", "intent_analysis"} => injected = <<extract_keywords>>
      /\ phase = "skill_retrieval" => injected = <<search_skills>>
      /\ phase = "tool_preparation" => injected = <<get_skill_content>>
      /\ \A k \in 1..Len(injected) :
            injected[k].name \in {"extract_keywords", "search_skills",
                                  "get_skill_content"}
               => injected[k].name = ExpectedTool(phase)

C6_Witness ==
    /\ pc = "after_model"
    /\ phase = "tool_preparation"
    /\ phase0 = "init"
    /\ injected = <<get_skill_content>>
    /\ DOMAIN phase_tools = {"init", "skill_retrieval", "tool_preparation"}

\* C7: in EXECUTION the injected phase tools are one content tool per skill
\* the search step found.
C7_ExecutionInjectsSkillTools ==
    (pc = "after_model" /\ phase = "execution")
        => injected = create_skill_content_tools(found)

\* C8: the tool list handed to the model is the request's tool list, in its
\* order, followed by the injected phase tools.
C8_BaseToolsKept ==
    pc = "after_model" =>
      /\ Len(model_tools) = Len(request_tools) + Len(injected)
      /\ SubSeq(model_tools, 1, Len(request_tools)) = request_tools
      /\ SubSeq(model_tools, Len(request_tools) + 1, Len(model_tools)) = injected

C8_Witness ==
    /\ pc = "after_model"
    /\ Len(request_tools) = 3
    /\ injected = <<search_skills>>
    /\ model_tools = <<extract_keywords, search_skills, get_skill_content,
                       search_skills>>

\* ------------------------------------------------------------------------
\* Response aggregator: properties
\* ------------------------------------------------------------------------

\* the delta payloads of the events of one type, in emission order
RECURSIVE Deltas(_, _)
Deltas(em, type) ==
    IF em = <<>> THEN <<>>
    ELSE IF Head(em).type = type
         THEN <<Head(em).payload.delta>> \o Deltas(Tail(em), type)
         ELSE Deltas(Tail(em), type)

\* C9: before finalize(), full_content is the concatenation of the payloads
\* of the content delta events emitted so far and content_events is their
\* number; the same for full_reasoning, reasoning_events and the reasoning
\* delta events.
C9_DeltasAccumulate ==
    result = NoResult =>
      /\ full_content = Concat(Deltas(emitted, ASSISTANT_DELTA))
      /\ content_events = Len(Deltas(emitted, ASSISTANT_DELTA))
      /\ full_reasoning = Concat(Deltas(emitted, ASSISTANT_REASONING_DELTA))
      /\ reasoning_events = Len(Deltas(emitted, ASSISTANT_REASONING_DELTA))

C9_Witness ==
    /\ result = NoResult
    /\ Deltas(emitted, ASSISTANT_DELTA) = << <<"A">>, <<"B">>, <<"A", "B">> >>
    /\ full_content = <<"A", "B", "A", "B">>
    /\ reasoning_events = 2

\* the step is handle_message called with a full (non-chunk) AI message
FullMessageStep == handled' = handled + 1 /\ last_msg'.cls = "AIMessage"

\* the step adds one delta d of the kind to string, counter and event stream
Contributes(str, cnt, type, d) ==
    /\ str' = str \o d
    /\ cnt' = cnt + 1
    /\ Deltas(emitted', type) = Append(Deltas(emitted, type), d)

\* the step leaves string, counter and event stream of the kind as they were
Ignored(str, cnt, type) ==
    /\ str' = str
    /\ cnt' = cnt
    /\ Deltas(emitted', type) = Deltas(emitted, type)

\* C10 as stated: a full AI message contributes a delta of a kind exactly
\* when no delta of that kind was emitted before, and is ignored for that
\* kind otherwise.
C10_FullMessageIffNoDelta ==
    [][FullMessageStep =>
        /\ IF content_events = 0
           THEN Contributes(full_content, content_events, ASSISTANT_DELTA,
                            Concat(last_msg'.content))
           ELSE Ignored(full_content, content_events, ASSISTANT_DELTA)
        /\ IF reasoning_events = 0
           THEN Contributes(full_reasoning, reasoning_events,
                            ASSISTANT_REASONING_DELTA, last_msg'.reasoning)
           ELSE Ignored(full_reasoning, reasoning_events,
                        ASSISTANT_REASONING_DELTA)]_vars

\* the reasoning of a message the handler can see: none for a v0 model
\* without extract_reasoning
VisibleReasoning(msg) ==
    IF model_kind = "v0_plain" THEN <<>> ELSE msg.reasoning

\* C10 (amended): a full AI message contributes a delta of a kind exactly
\* when no delta of that kind was emitted before and the message carries
\* non-empty content of that kind; otherwise string, counter and events of
\* that kind stay as they were.
C10_FullMessageFallback ==
    [][FullMessageStep =>
        /\ IF content_events = 0 /\ Concat(last_msg'.content) # <<>>
           THEN Contributes(full_content, content_events, ASSISTANT_DELTA,
                            Concat(last_msg'.content))
           ELSE Ignored(full_content, content_events, ASSISTANT_DELTA)
        /\ IF reasoning_events = 0 /\ VisibleReasoning(last_msg') # <<>>
           THEN Contributes(full_reasoning, reasoning_events,
                            ASSISTANT_REASONING_DELTA,
                            VisibleReasoning(last_msg'))
           ELSE Ignored(full_reasoning, reasoning_events,
                        ASSISTANT_REASONING_DELTA)]_vars

\* [text "A", text "B", full "AB"]: two content events, full_content "AB"
C10_Witness ==
    /\ handled = 3
    /\ result = NoResult
    /\ last_msg.cls = "AIMessage"
    /\ last_msg.content = << <<"A", "B">> >>
    /\ emitted = <<Event(ASSISTANT_DELTA, [delta |-> <<"A">>]),
                   Event(ASSISTANT_DELTA, [delta |-> <<"B">>])>>
    /\ content_events = 2
    /\ full_content = <<"A", "B">>

\* the step is the call of finalize()
FinalizeStep == result = NoResult /\ result' # NoResult

\* content and reasoning as accumulated, reasoning None when empty
Unswapped ==
    [content |-> full_content,
     reasoning |-> IF full_reasoning # <<>> THEN full_reasoning
                   ELSE NoReasoning]

\* reasoning promoted into content
Swapped == [content |-> full_reasoning, reasoning |-> NoReasoning]

\* C11 as stated: finalize() returns the accumulated reasoning as content
\* and None as reasoning whenever the content counter is 0 and
\* full_reasoning is non-empty, and returns content and reasoning unswapped
\* whenever the content counter is greater than 0.
C11_FallbackWhenNonEmpty ==
    [][FinalizeStep =>
        /\ (content_events = 0 /\ full_reasoning # <<>>) => result' = Swapped
        /\ content_events > 0 => result' = Unswapped]_vars

\* the string holds a character that is not whitespace
NonBlank(str) == \E k \in 1..Len(str) : str[k] # " "

\* C11 (amended): finalize() returns the accumulated reasoning as content
\* and None as reasoning exactly when the content counter is 0 and
\* full_reasoning holds a non-whitespace character; in every other case
\* content and reasoning are returned unswapped.
C11_FallbackWhenNonBlank ==
    [][FinalizeStep =>
        result' = IF content_events = 0 /\ NonBlank(full_reasoning)
                  THEN Swapped ELSE Unswapped]_vars

\* [reasoning "t"] with no text delta: content "t", reasoning None
C11_Witness ==
    /\ result = [content |-> <<"t">>, reasoning |-> NoReasoning]
    /\ content_events = 0
    /\ reasoning_events = 1
    /\ Deltas(emitted, ASSISTANT_REASONING_DELTA) = << <<"t">> >>

\* positions of the events of a type in an event sequence
Positions(em, type) == {i \in 1..Len(em) : em[i].type = type}

\* positions of the content and reasoning delta events
DeltaPositions(em) ==
    Positions(em, ASSISTANT_DELTA) \cup Positions(em, ASSISTANT_REASONING_DELTA)

\* chat_stream has returned after consuming the whole chunk stream
StreamCompleted == svc = "returned" /\ path = "stream"

\* C12: in a turn whose chunk stream is fully consumed, finalize() runs
\* once and exactly one assistant.final event is emitted, after every
\* delta event of the turn; its payload is the value finalize() returned,
\* and its reasoning is None exactly when the resulting reasoning is empty.
\* No turn ever emits a second assistant.final event.
C12_OneFinalAfterDeltas ==
    /\ Cardinality(Positions(emitted, ASSISTANT_FINAL)) <= 1
    /\ StreamCompleted =>
          /\ Cardinality(Positions(emitted, ASSISTANT_FINAL)) = 1
          /\ \A j \in Positions(emitted, ASSISTANT_FINAL) :
                /\ \A i \in DeltaPositions(emitted) : i < j
                /\ emitted[j].payload = result
                /\ emitted[j].payload.content = full_content
                /\ emitted[j].payload.reasoning = NoReasoning
                       <=> full_reasoning = <<>>
                /\ emitted[j].payload.reasoning # NoReasoning
                       => emitted[j].payload.reasoning = full_reasoning

\* [text "A", reasoning "t"] consumed, finalized and closed
C12_Witness ==
    /\ StreamCompleted
    /\ content_events = 1
    /\ reasoning_events = 1
    /\ Len(emitted) = 4
    /\ emitted[3] = Event(ASSISTANT_FINAL,
                          [content |-> <<"A">>, reasoning |-> <<"t">>])
    /\ emitted[4].type = END

\* sequence a is an initial part of sequence b
IsPrefix(a, b) == Len(a) <= Len(b) /\ SubSeq(b, 1, Len(a)) = a

\* the events a step adds behind the ones emitted before it
NewEvents == SubSeq(emitted', Len(emitted) + 1, Len(emitted'))

ServiceOver == svc \in {"returned", "raised"}

\* the three paths: agent construction fails, the stream raises, the
\* stream completes
ThreePaths == {"init_failed", "stream_failed", "stream"}

C15_StreamFailureOneError ==
    path = "stream_failed" =>
        /\ Cardinality(Positions(emitted, ERROR)) = 1
        /\ \A i \in Positions(emitted, ERROR) :
              \A j \in Positions(emitted, END) : i < j
        /\ Positions(emitted, ASSISTANT_FINAL) = {}
        /\ result = NoResult
        /\ svc = "returned" => emitted[Len(emitted)].type = END

\* [reasoning "t"] handled, then the stream raised and the sink was closed
C15_Witness ==
    /\ svc = "returned"
    /\ path = "stream_failed"
    /\ handled = 1
    /\ emitted = <<Event(ASSISTANT_REASONING_DELTA, [delta |-> <<"t">>]),
                   Event(ERROR, [message |-> "unavailable"]),
                   Event(END, None)>>

\* the caller has given up the event stream: it stopped consuming, or it
\* cancelled the task that runs chat_stream
GivenUp == abandoned \/ path = "cancelled"

\* C16: once the caller has abandoned a turn's event stream before its
\* end, the model invocation is cancelled (no further chunk is handled),
\* the aggregator is not finalized, and the sink is not closed without an
\* error event emitted before the end marker.
C16_AbandonCancels ==
    [][GivenUp =>
          /\ handled' = handled
          /\ ~FinalizeStep
          /\ Positions(emitted', END) # {} =>
                Positions(emitted', ERROR) # {}]_vars

AssistantMessages ==
    {i \in 1..Len(saved_messages) :
        /\ saved_messages[i].role = "assistant"
        /\ saved_messages[i].message_id = assistant_message_id}

\* the turn has passed its first yield
TurnStarted == turn_pc \in {"started", "failed", "done"}

\* C18: every turn yields exactly one meta.start event, as its first
\* event, whose payload carries the user_message_id (the id the user
\* message was saved with) and the assistant_message_id of the turn; this
\* stays so when the turn later fails.
C18_OneMetaStartFirst ==
    /\ turn_pc = "called" => yielded = <<>>
    /\ TurnStarted =>
          /\ Positions(yielded, META_START) = {1}
          /\ yielded[1].payload.user_message_id = user_message_id
          /\ yielded[1].payload.assistant_message_id = assistant_message_id
          /\ user_message_id # assistant_message_id
          /\ \E i \in 1..Len(saved_messages) :
                /\ saved_messages[i].role = "user"
                /\ saved_messages[i].message_id = user_message_id
                /\ saved_messages[i].conversation_id = conversation_id

\* a turn in a conversation created for it, failed after its meta.start
C18_Witness ==
    /\ turn_pc = "failed"
    /\ request.conversation_id = Unset
    /\ conversation_id = new_conversation_id(1)
    /\ yielded[1].type = META_START
    /\ yielded[Len(yielded)].type = ERROR

\* C19, in a service none of whose collaborators fails (in TurnSpec the
\* database, the configuration store and the model always answer, so
\* every turn is one that should complete without error): at the end of
\* the turn no error event was yielded and exactly one assistant message
\* is saved, under the turn's assistant_message_id, in the turn's
\* conversation.
C19_AssistantMessageSaved ==
    turn_pc = "done" =>
        /\ Positions(yielded, ERROR) = {}
        /\ Cardinality(AssistantMessages) = 1
        /\ \A i \in AssistantMessages :
              saved_messages[i].conversation_id = conversation_id

\* the step is an update_progress call that produced an event
NotifyStep == updates' = updates + 1 /\ last_event' # NoEvent

\* C20: each subscriber has its own bounded queue, never holding more
\* than the capacity; an update_progress call puts its event at the end of
\* every queue that has room and leaves every full queue as it is, so the
\* event is dropped for the full subscriber only; and update_progress can
\* be called whatever the queues hold: it never waits for a consumer.
C20_DropOnFullPerSubscriber ==
    /\ [](\A i \in 1..Len(subscribers) : Len(subscribers[i]) <= MaxQueue)
    /\ []((task_status # "-" /\ updates < MaxUpdates)
              => ENABLED update_progress)
    /\ [][NotifyStep =>
             /\ Len(subscribers') = Len(subscribers)
             /\ \A i \in 1..Len(subscribers) :
                   subscribers'[i] =
                       IF Len(subscribers[i]) < MaxQueue
                       THEN Append(subscribers[i], last_event')
                       ELSE subscribers[i]]_vars

\* the first subscriber's queue is full and has lost the last event, which
\* the second subscriber has received
C20_Witness ==
    /\ Len(subscribers) = 2
    /\ Len(subscribers[1]) = MaxQueue
    /\ subscribers[1][MaxQueue] # last_event
    /\ \A k \in 1..MaxQueue : subscribers[1][k] # last_event
    /\ subscribers[2] # <<>>
    /\ subscribers[2][Len(subscribers[2])] = last_event

\* the string ids among the ids of the tool messages handled so far
StringIdsReceived ==
    {tool_results[i] : i \in 1..Len(tool_results)} \ {NoId}

\* the step handles a tool message whose string id was received before
RepeatedToolStep ==
    /\ handled' = handled + 1
    /\ last_msg'.cls = "ToolMessage"
    /\ last_msg'.id \in StringIdsReceived

\* C21: after any chunk sequence seen_tool_ids is exactly the set of
\* string ids of the tool messages received, and handling a tool message
\* whose string id was received before changes nothing in the handler and
\* emits nothing.
C21_ToolDedup ==
    /\ [](seen_tool_ids = StringIdsReceived)
    /\ [][RepeatedToolStep =>
             /\ seen_tool_ids' = seen_tool_ids
             /\ emitted' = emitted
             /\ full_content' = full_content
             /\ full_reasoning' = full_reasoning
             /\ content_events' = content_events
             /\ reasoning_events' = reasoning_events
             /\ reasoning_chars' = reasoning_chars]_vars

\* tool results "call_1", "call_2", "call_1": two ids are remembered
C21_Witness ==
    /\ tool_results = <<"call_1", "call_2", "call_1">>
    /\ seen_tool_ids = {"call_1", "call_2"}
    /\ emitted = <<>>

\* ------------------------------------------------------------------------
\* IntentExtractor: properties
\* ------------------------------------------------------------------------

\* extract has returned
Extracted == intent_result # None

\* what the baseline alone gives for the message
Baseline ==
    IntentResult(extract_keywords_basic(user_message),
                 detect_intent_basic(user_message), <<>>, user_message)

\* a model is configured and its call raises, or its answer holds no brace
\* group json.loads accepts
AugmentationFails ==
    /\ llm # None
    /\ llm.raises \/ llm.content.kind \in {"prose", "braces"}

\* C22: when the language-model call raises or returns text without
\* parseable JSON, extract still returns, and what it returns is exactly the
\* baseline result: baseline keywords, baseline intent, no entities.
C22_AugmentationFailureGivesBaseline ==
    (Extracted /\ AugmentationFails) => intent_result = Baseline

C22_Witness ==
    /\ Extracted
    /\ llm # None
    /\ llm.raises
    /\ user_message = <<"h", "o", "w", " ", "l", "e", "a", "r", "n", " ", "p", "y", "t", "h", "o", "n">>
    /\ intent_result.keywords = <<<<"l", "e", "a", "r", "n">>, <<"p", "y", "t", "h", "o", "n">>>>
    /\ intent_result.intent = "learn"
    /\ intent_result.entities = <<>>

\* the message of the end-to-end scenario
Scenario == <<"h", "o", "w", " ", "t", "o", " ", "u", "s", "e", " ", "d", "e", "c", "o", "r", "a", "t", "o", "r", " ", "i", "n", " ", "p", "y", "t", "h", "o", "n">>

ScenarioKeywords == <<<<"u", "s", "e">>, <<"d", "e", "c", "o", "r", "a", "t", "o", "r">>, <<"p", "y", "t", "h", "o", "n">>>>

\* some word of the set occurs in the lowercased message
Occurs(words) == \E kw \in words : contains(lower(user_message), kw)

\* the intent is the first of learn, compare, create, ask with a word in the
\* lowercased message, and search only when none has one
FirstIntentWithWord ==
    /\ intent_result.intent = "learn" <=> Occurs(intent_words.learn)
    /\ intent_result.intent = "compare" <=>
           (~Occurs(intent_words.learn) /\ Occurs(intent_words.compare))
    /\ intent_result.intent = "create" <=>
           (/\ ~Occurs(intent_words.learn) /\ ~Occurs(intent_words.compare)
            /\ Occurs(intent_words.create))
    /\ intent_result.intent = "ask" <=>
           (/\ ~Occurs(intent_words.learn) /\ ~Occurs(intent_words.compare)
            /\ ~Occurs(intent_words.create) /\ Occurs(intent_words.ask))
    /\ intent_result.intent = "search" <=>
           (/\ ~Occurs(intent_words.learn) /\ ~Occurs(intent_words.compare)
            /\ ~Occurs(intent_words.create) /\ ~Occurs(intent_words.ask))

\* C23 as stated: the baseline extraction of "how to use decorator in
\* python" yields keywords [use, decorator, python] and intent search, the
\* intent being the first of learn, compare, create, ask with a word in the
\* lowercased text.
C23_ScenarioIsSearch ==
    (Extracted /\ llm = None) =>
        /\ FirstIntentWithWord
        /\ user_message = Scenario =>
               /\ intent_result.keywords = ScenarioKeywords
               /\ intent_result.intent = "search"

\* C23 amended: the baseline extraction of "how to use decorator in python"
\* yields keywords [use, decorator, python] and intent ask, because "how" is
\* a word of the ask set and occurs in the text; the intent of every message
\* is the first of learn, compare, create, ask with a word in the lowercased
\* text, and search only when none has one.
C23_ScenarioIsAsk ==
    (Extracted /\ llm = None) =>
        /\ FirstIntentWithWord
        /\ user_message = Scenario =>
               /\ intent_result.keywords = ScenarioKeywords
               /\ intent_result.intent = "ask"

C23_Witness ==
    /\ Extracted
    /\ llm = None
    /\ user_message = Scenario
    /\ intent_result.keywords = ScenarioKeywords
    /\ intent_result.intent = "ask"
    /\ Occurs({<<"h", "o", "w">>})

\* no element of the list occurs twice
NoDuplicates(xs) == \A i, j \in 1..Len(xs) : xs[i] = xs[j] => i = j

\* the model answered with an object whose keywords extract merged
AugmentationSucceeds ==
    /\ llm # None
    /\ extract_with_llm(llm) \notin {None, Raised}
    /\ extract_with_llm(llm).dict # EmptyDict
    /\ get(extract_with_llm(llm).dict, "keywords", JList(<<>>)).type = "list"

\* the keywords the model answered with
Augmentation == get(extract_with_llm(llm).dict, "keywords", JList(<<>>)).items

\* the elements of xs that are not in ys, first occurrences only
NotAlreadyIn(xs, ys) ==
    LET news == SelectSeq(fromkeys(xs), LAMBDA x : ~in_list(x, ys))
    IN  news

\* C24: the keywords of every IntentResult extract returns hold no
\* duplicates, with or without augmentation; after a successful augmentation
\* they are the baseline keywords followed by the augmentation keywords not
\* already present.
C24_KeywordsUnique ==
    Extracted =>
        /\ NoDuplicates(intent_result.keywords)
        /\ AugmentationSucceeds =>
               intent_result.keywords =
                   Baseline.keywords
                       \o NotAlreadyIn(Augmentation, Baseline.keywords)

\* ------------------------------------------------------------------------
\* QueryBuilder: properties
\* ------------------------------------------------------------------------

\* the step of build a condition comes from
Stage(c) ==
    IF c.type = "regex" THEN 4
    ELSE IF c.type = "tag" THEN 3
    ELSE IF c.field = "all" THEN 1
    ELSE 2

\* the conditions of q are those of ir in the order of build: per keyword
\* its condition (1.0) then at most three synonyms (0.8), then the entity
\* conditions, then one tag condition (0.5) per category of the intent, then
\* one regex condition (0.9) exactly when there is a keyword
InBuildOrder(q, ir) ==
    LET cs == q.conditions
        n == Len(cs)
        primaries == SelectSeq(cs, LAMBDA c : Stage(c) = 1 /\ c.weight = 10)
        tags == SelectSeq(cs, LAMBDA c : Stage(c) = 3)
        regexes == SelectSeq(cs, LAMBDA c : Stage(c) = 4)
    IN  /\ \A i \in 1..(n - 1) : Stage(cs[i]) <= Stage(cs[i + 1])
        /\ \A i \in 1..n : Stage(cs[i]) = 1 => cs[i].weight \in {10, 8}
        /\ (n > 0 /\ Stage(cs[1]) = 1) => cs[1].weight = 10
        /\ [i \in 1..Len(primaries) |-> primaries[i].pattern] = ir.keywords
        /\ \A i \in 1..(n - 3) :
               ~(\A j \in i..(i + 3) : Stage(cs[j]) = 1 /\ cs[j].weight = 8)
        /\ \A i \in 1..Len(tags) : tags[i].weight = 5
        /\ [i \in 1..Len(tags) |-> tags[i].pattern]
               = get(INTENT_CATEGORY_MAP, ir.intent, <<>>)
        /\ Len(regexes) = (IF ir.keywords = <<>> THEN 0 ELSE 1)
        /\ regexes # <<>> => (cs[n].type = "regex" /\ cs[n].weight = 9)

\* C25: build emits the conditions in a fixed order that is a function of
\* the IntentResult alone - per keyword the primary condition then its
\* synonyms, then entities, then tags, then the regex condition when there
\* is a keyword - and two builds of the same IntentResult give the same
\* condition sequence.
C25_FixedOrder ==
    /\ \A i \in 1..Len(built) : InBuildOrder(built[i], intent_result)
    /\ \A i, j \in 1..Len(built) : built[i] = built[j]

\* the query has a keyword condition of this pattern and weight
HasKeywordCondition(q, pattern, weight) ==
    \E i \in 1..Len(q.conditions) :
        /\ q.conditions[i].type = "keyword"
        /\ q.conditions[i].pattern = pattern
        /\ q.conditions[i].weight = weight

\* the entries of the table that list the word among their values
EntriesListing(word) ==
    {e \in 1..Len(SYNONYMS) :
         \E v \in 1..Len(SYNONYMS[e].values) :
             lower(SYNONYMS[e].values[v]) = lower(word)}

\* C26: a query built from an IntentResult holding the keyword "decorator",
\* in any case, has a keyword condition "wrapper" of weight 0.8; and a
\* keyword that is a value of a table entry brings the key of that entry as
\* a keyword condition of weight 0.8.
C26_SynonymExpansion ==
    built # <<>> =>
        \A k \in 1..Len(intent_result.keywords) :
            LET keyword == intent_result.keywords[k]
            IN  /\ lower(keyword) = <<"d", "e", "c", "o", "r", "a", "t", "o", "r">> =>
                       HasKeywordCondition(query, <<"w", "r", "a", "p", "p", "e", "r">>, 8)
                /\ \A e \in EntriesListing(keyword) :
                       HasKeywordCondition(query, SYNONYMS[e].key, 8)

C26_Witness ==
    /\ built # <<>>
    /\ intent_result.keywords = <<<<"D", "e", "c", "o", "r", "a", "t", "o", "r">>, <<"w", "r", "a", "p", "p", "e", "r">>>>
    /\ HasKeywordCondition(query, <<"w", "r", "a", "p", "p", "e", "r">>, 8)
    /\ HasKeywordCondition(query, <<"d", "e", "c", "o", "r", "a", "t", "o", "r">>, 8)
    /\ EntriesListing(<<"w", "r", "a", "p", "p", "e", "r">>) # {}

\* ------------------------------------------------------------------------
\* SkillSearcher: properties
\* ------------------------------------------------------------------------

\* search has returned
Searched == search_result # None

\* the skills search looked at
Candidates == active_skills(skills)

\* the weight of the first n conditions of the query that match the texts
RECURSIVE SumMatched(_, _)
SumMatched(texts, n) ==
    IF n = 0 THEN 0
    ELSE SumMatched(texts, n - 1)
             + (IF matched(query.conditions[n], texts)
                THEN query.conditions[n].weight ELSE 0)

\* the total matched weight of the i-th candidate
TotalWeight(i) ==
    SumMatched(search_texts(Candidates[i]), Len(query.conditions))

\* C27: every SkillMatch the scorer returns has a score from 0 to 1 (0 to
\* 1000 thousandths), with condition weights above 1 and after the 1.2 boost
\* of a name match, and a skill whose total matched weight is 0 gets no
\* SkillMatch and is in no result.
C27_ScoreBounds ==
    Searched =>
        /\ \A i \in 1..Len(scored) :
               /\ scored[i] # None => scored[i].score \in 0..1000
               /\ TotalWeight(i) = 0 => scored[i] = None
        /\ \A k \in 1..Len(search_result.matches) :
               /\ search_result.matches[k].score \in 0..1000
               /\ \E i \in 1..Len(scored) :
                      /\ scored[i] = search_result.matches[k]
                      /\ TotalWeight(i) > 0

C27_Witness ==
    /\ Searched
    /\ Len(scored) = 2
    /\ Len(query.conditions) = 2
    /\ query.conditions[1].weight = 12
    /\ TotalWeight(1) = 22
    /\ scored[1] # None
    /\ scored[1].matched_keywords = <<<<"D", "e", "c", "o", "r", "a", "t", "o", "r">>>>
    /\ scored[1].score = 1000
    /\ TotalWeight(2) = 0
    /\ scored[2] = None
    /\ Len(search_result.matches) = 1

\* the conditions of these kinds that match the i-th candidate, by position
MatchedOf(i, kinds) ==
    {n \in 1..Len(query.conditions) :
         /\ query.conditions[n].type \in kinds
         /\ matched(query.conditions[n], search_texts(Candidates[i]))}

\* the greatest element of a non-empty set of numbers
Last(ns) == CHOOSE n \in ns : \A m \in ns : m <= n

AllKinds == {"keyword", "regex", "category", "tag"}

\* C28 as stated: matched_by of every SkillMatch is the kind of the last
\* condition in query order that matched the skill.
C28_LastMatchedKind ==
    Searched =>
        \A i \in 1..Len(scored) :
            scored[i] # None =>
                scored[i].matched_by
                    = query.conditions[Last(MatchedOf(i, AllKinds))].type

\* C28 amended: matched_by of every SkillMatch is the kind of the last
\* condition in query order that matched the skill among the regex and
\* category conditions, and "keyword" when no regex or category condition
\* matched it; a keyword or tag match never changes it.
C28_LastRegexOrCategory ==
    Searched =>
        \A i \in 1..Len(scored) :
            scored[i] # None =>
                scored[i].matched_by
                    = IF MatchedOf(i, {"regex", "category"}) = {}
                      THEN "keyword"
                      ELSE query.conditions[
                               Last(MatchedOf(i, {"regex", "category"}))].type

C28_Witness ==
    /\ Searched
    /\ Len(scored) >= 1
    /\ scored[1] # None
    /\ MatchedOf(1, AllKinds) = {1, 2}
    /\ query.conditions[1].type = "category"
    /\ query.conditions[2].type = "keyword"
    /\ scored[1].matched_by = "category"

\* the candidates a search may return: matched, and not below min_score
Eligible ==
    {i \in 1..Len(scored) :
         /\ scored[i] # None
         /\ scored[i].score >= query.min_score
         /\ TotalWeight(i) > 0}

\* the place of a candidate among the eligible ones: after those of a
\* higher score and those of the same score that come before it
Place(eligible, i) ==
    Cardinality({j \in eligible :
                     \/ scored[j].score > scored[i].score
                     \/ scored[j].score = scored[i].score /\ j <= i})

\* C29: for a limit that is not negative, search returns exactly the first
\* limit elements of the active skills with a total matched weight above 0
\* and a score of at least min_score, the higher score first and equal
\* scores in candidate order; what is below min_score is dropped before the
\* cut, so no eligible match is left out for a lower-scored one.
C29_TopOfEligible ==
    Searched =>
        LET eligible == Eligible
        IN  /\ Len(search_result.matches)
                   = (IF query.limit < Cardinality(eligible) THEN query.limit
                      ELSE Cardinality(eligible))
            /\ \A i \in eligible :
                   Place(eligible, i) <= query.limit =>
                       search_result.matches[Place(eligible, i)] = scored[i]
            /\ search_result.total_count = Len(search_result.matches)

C29_Witness ==
    /\ Searched
    /\ Len(skills) = 2
    /\ Eligible = {1, 2}
    /\ scored[1].score = 450
    /\ scored[2].score = 1000
    /\ query.limit = 1
    /\ query.min_score = DefaultMinScore
    /\ search_result.matches = <<scored[2]>>

\* ------------------------------------------------------------------------
\* Phase state machine across turns: properties
\* ------------------------------------------------------------------------

\* a new user message arrives on the thread
NewTurnStep == pc = "done" /\ pc' = "model"

\* the model is called
ModelCallStep == pc = "model" /\ pc' = "after_model"

\* the tools of the retrieval pipeline
PipelineTools == {extract_keywords, search_skills, get_skill_content}

\* C30: a new user message on an existing thread leaves the persisted phase
\* as it is, so the next turn begins in the phase the thread had reached; a
\* thread in EXECUTION stays there, and no model call made in EXECUTION is
\* given extract_keywords, search_skills or get_skill_content as a phase
\* tool.
C30_PhaseSurvivesNewTurn ==
    /\ [][NewTurnStep => phase' = phase]_vars
    /\ [][phase = "execution" => phase' = "execution"]_vars
    /\ [][(ModelCallStep /\ phase = "execution") =>
              \A k \in 1..Len(injected') : injected'[k] \notin PipelineTools]_vars

C30_Witness ==
    /\ phase0 = "tool_preparation"
    /\ phase = "execution"
    /\ ai_steps = 2
    /\ pc = "model"
    /\ messages = <<AIMessage(<<>>), HumanMessage>>

\* ------------------------------------------------------------------------
\* Turns on one conversation thread: properties
\* ------------------------------------------------------------------------

\* the runs of the thread that have started and not ended
Running == {r \in 1..Len(runs) : runs[r].pc = "model"}

\* the phase a checkpoint stands for
Persisted(p) == get_current_phase(p)

\* the stage one transition of the pipeline leads to
Successor(p) ==
    CASE p = "init" -> "skill_retrieval"
      [] p = "skill_retrieval" -> "tool_preparation"
      [] p = "tool_preparation" -> "execution"
      [] OTHER -> p

\* C31: the turns of one conversation thread are serialized - no run of the
\* thread is under way while another run of the thread is - so the
\* persisted phase never regresses and never skips a stage: a step leaves
\* it as it is or moves it to its successor.
C31_TurnsSerialized ==
    [][/\ Cardinality(Running') <= 1
       /\ Persisted(checkpoint') \in {Persisted(checkpoint),
                                      Successor(Persisted(checkpoint))}]_vars

\* ------------------------------------------------------------------------
\* TaskManager: counting and the event stream, properties
\* ------------------------------------------------------------------------

\* C32: update_progress counts each file at most once, whatever the calls
\* (a file reported COMPLETED or FAILED, then with a step that is neither,
\* then COMPLETED or FAILED again): completed + failed never exceeds total.
C32_CountedOnce == completed + failed <= total

\* the generators that have ended, by return or by close
Ended == {k \in 1..Len(streams) : streams[k].pc \in {"returned", "closed"}}

\* the generator has yielded a COMPLETED or FAILED event of the file
GotTerminal(k, file_id) ==
    \E e \in streams[k].received :
        e.file_id = file_id /\ e.step \in {"completed", "failed"}

\* C33: a generator that subscribed before the first update_progress call,
\* whose queue never overflowed (there were no more calls than a queue
\* holds) and that has returned has yielded a COMPLETED or FAILED event of
\* every file of the task, however many events were enqueued between two of
\* its steps.
C33_TerminalEventsReceived ==
    \A k \in 1..Len(streams) :
        (/\ streams[k].pc = "returned"
         /\ streams[k].opened_at = 0
         /\ updates <= MaxQueue
         /\ \A f \in 1..Len(files) : was_completed(files[f]))
            => \A f \in 1..Len(files) : GotTerminal(k, f)

\* C34: once completed + failed >= total every generator of the task
\* eventually ends (also for a task without files, and with events
\* dropped), and a generator that has ended, by return or by close, has its
\* queue removed: the subscriber list holds the queues of the generators
\* that have not ended and no other.
C34_StreamEnds ==
    /\ (streams # <<>> /\ completed + failed >= total) ~> (1 \in Ended)
    /\ [](Len(subscribers) = Len(streams) - Cardinality(Ended))

\* ------------------------------------------------------------------------
\* Phase state machine: one stage per step, the way to EXECUTION
\* ------------------------------------------------------------------------

\* C35: one model step moves the phase by at most one stage: aafter_model
\* leaves the phase as it is or moves it to the successor of the current
\* phase, also when the AI message calls several pipeline tools at once.
C35_OneStagePerStep ==
    [][pc = "after_model" =>
           \/ update' = None /\ phase' = phase
           \/ /\ update' # None
              /\ phase' = Successor(get_current_phase(phase))
              /\ phase' # get_current_phase(phase)]_vars

\* in INIT, one AI message has called extract_keywords and search_skills;
\* the phase is SKILL_RETRIEVAL
C35_Witness ==
    /\ phase0 = "init"
    /\ ai_steps = 1
    /\ pc = "tools"
    /\ messages[1].tool_calls = <<"extract_keywords", "search_skills">>
    /\ phase = "skill_retrieval"

\* C36: on a thread that starts with no phase or in INIT, whenever the
\* phase is EXECUTION the history holds a step calling extract_keywords, a
\* later step calling search_skills and a still later step calling
\* get_skill_content: three tool-calling model steps at least.
C36_ExecutionNeedsPipeline ==
    (phase0 \in {"init", NoPhase} /\ phase = "execution")
        => (pipeline = Len(PipelineTool) /\ ai_steps >= Len(PipelineTool))

\* EXECUTION reached from a thread without a phase
C36_Witness ==
    /\ phase0 = NoPhase
    /\ phase = "execution"
    /\ pipeline = 3
    /\ LastStepCalled("get_skill_content")

\* ------------------------------------------------------------------------
\* Response aggregator: messages that are not AI messages
\* ------------------------------------------------------------------------

\* the step is handle_message called with a tool message or with a message
\* of a class the handler does not know
OtherMessageStep ==
    /\ handled' = handled + 1
    /\ last_msg'.cls \notin {"AIMessageChunk", "AIMessage"}

\* what finalize() would return in this state
WouldReturn == finalize_result(finalize_fields(Handler))

\* C37: handling a tool-result message or an unrecognized message emits no
\* event and leaves full_content, full_reasoning and the content and
\* reasoning counters as they were, so what finalize() returns is the same
\* before and after it.
C37_OtherMessagesLeaveOutput ==
    [][OtherMessageStep =>
           /\ emitted' = emitted
           /\ full_content' = full_content
           /\ full_reasoning' = full_reasoning
           /\ content_events' = content_events
           /\ reasoning_events' = reasoning_events
           /\ reasoning_chars' = reasoning_chars
           /\ WouldReturn' = WouldReturn]_vars

\* a tool message was handled after an AI chunk with text
C37_Witness ==
    /\ handled = 2
    /\ last_msg.cls = "ToolMessage"
    /\ last_msg.id \in seen_tool_ids
    /\ full_content # <<>>
    /\ Len(emitted) = 1
    /\ result = NoResult

\* ------------------------------------------------------------------------
\* ChatService: the two readers of a turn's events
\* ------------------------------------------------------------------------

RECURSIVE stream_full_content(_, _)
\* chat_stream_with_tools: full_content after the consumer loop has read
\* the events, starting from acc; this is what add_message saves
stream_full_content(events, acc) ==
    IF events = <<>> THEN acc
    ELSE LET evt == Head(events)
         IN  stream_full_content(Tail(events),
                 IF evt.type = ASSISTANT_DELTA
                 THEN acc \o evt.payload.delta
                 ELSE IF evt.type = ASSISTANT_FINAL
                      THEN IF evt.payload.content # <<>>
                           THEN evt.payload.content
                           ELSE acc
                      ELSE acc)

\* ChatService.chat: result["content"] after its loop has read the events
chat_content(events) == Concat(Deltas(events, ASSISTANT_DELTA))

TypesOf(tool_call_id) ==
    LET mine == SelectSeq(sink, LAMBDA e : e.payload.tool_call_id = tool_call_id)
    IN  [i \in 1..Len(mine) |-> mine[i].type]

\* C39: a tool call made with an emitter has, when it returns, delivered
\* exactly one tool.start followed by exactly one tool.end with its
\* tool_call_id, whatever the outcome, and has returned a JSON string.
C39_OneStartOneEnd ==
    (tool_pc = "returned" /\ invocation.emitter = "aemit") =>
        /\ TypesOf(invocation.tool_call_id) = <<TOOL_START, TOOL_END>>
        /\ DOMAIN returned = {"json"}

====
